---- MODULE Spec2Model ----
(***************************************************************************)
(* Model of the bronze-layer loader of the Olist warehouse:                *)
(*   db.py          load_csv_via_temp_table (the staged load)              *)
(*   load_bronze.py load() and the lineage helpers                         *)
(* The database is PostgreSQL at READ COMMITTED, reached through psycopg2  *)
(* connections without autocommit: a statement sees the committed rows     *)
(* plus the writes of its own transaction, a failed statement leaves the   *)
(* transaction aborted until rollback, and a DELETE waits for a row that   *)
(* another open transaction has deleted.                                   *)
(***************************************************************************)
EXTENDS Integers, Sequences, FiniteSets, Bags, TLC

VARIABLES
    disk,           \* the file system: absolute path -> data rows of the CSV
    manifests,      \* Data/manifest/<snapshot>.json: snapshot -> file descriptors
    bronze,         \* committed rows of the bronze tables (a bag)
    runs,           \* ingestion.runs: run_id -> row
    file_loads,     \* ingestion.file_loads: <<run_id, filename>> -> row
    file_manifest,  \* ingestion.file_manifest: set of rows
    now,            \* the database clock (created_at)
    tx,             \* per connection: "idle", "open" or "aborted"
    ins,            \* per connection: rows inserted and not yet committed
    del,            \* per connection: committed rows deleted, not yet committed
    tmp,            \* per connection: the staging table of the transaction
    ld,             \* per connection: the frame of load_csv_via_temp_table
    orch,           \* the frame of load()
    nfaults,        \* statements that have failed so far
    ncalls,         \* calls of the loader made by the direct callers
    lastLoad,       \* history: the last committed load per <<table, snapshot>>
    disturbed,      \* history: another connection committed during the call
    quality_checks, \* ingestion.quality_checks: <<run_id, table, check>> -> row
    pool,           \* db.py module state: _DB_POOL and the acquisition in progress
    probe,          \* the frame of a helper called on its own: arguments, result
    _DB_POOL,       \* db.py global seen by threads: 0 (None) or a pool object
    pool_objs,      \* the ThreadedConnectionPool objects created so far
    th              \* per thread: its position in get_db_connection / close_pool

dbvars  == <<bronze, runs, file_loads, file_manifest, now>>
txvars  == <<tx, ins, del, tmp>>
fsvars  == <<disk, manifests>>
linvars == <<runs, file_loads, file_manifest, now>>
thrvars == <<_DB_POOL, pool_objs, th>>
restvars == <<quality_checks, pool, probe, thrvars>>
vars == <<disk, manifests, bronze, runs, file_loads, file_manifest, now,
          tx, ins, del, tmp, ld, orch, nfaults, ncalls, lastLoad, disturbed,
          quality_checks, pool, probe, _DB_POOL, pool_objs, th>>

-----------------------------------------------------------------------------
(* Bounds *)

MaxRows   == 2      \* data rows of a CSV file
MaxCalls  == 3      \* direct calls of load_csv_via_temp_table
MaxFaults == 2      \* failing statements in one behaviour
NumFiles  == 2      \* entries of FILE_TO_TABLE a run iterates over
MaxRuns   == 2      \* calls of load()

-----------------------------------------------------------------------------
(* Constants of the program *)

ALLOWED_TABLES ==
    {"orders", "order_items", "customers", "products", "sellers",
     "order_reviews", "order_payments", "geolocation",
     "product_category_name_translation"}

METADATA_COLS == <<"_snapshot_id", "_run_id", "_inserted_at", "_source_file">>

FILE_TO_TABLE ==
    << <<"olist_orders_dataset.csv", "orders">>,
       <<"olist_order_items_dataset.csv", "order_items">>,
       <<"olist_customers_dataset.csv", "customers">>,
       <<"olist_products_dataset.csv", "products">>,
       <<"olist_sellers_dataset.csv", "sellers">>,
       <<"olist_order_reviews_dataset.csv", "order_reviews">>,
       <<"olist_order_payments_dataset.csv", "order_payments">>,
       <<"olist_geolocation_dataset.csv", "geolocation">>,
       <<"product_category_name_translation.csv",
         "product_category_name_translation">> >>

Conns     == {1, 2}
Snapshots == {"s1", "s2"}
RunIds    == {"r1", "r2"}
Vals      == {"a", "b"}
None      == "None"

-----------------------------------------------------------------------------
(* Paths: a path is the sequence of its components; an absolute path starts *)
(* with the component "/".                                                  *)

Cwd == <<"/", "app">>

RECURSIVE normpath(_, _)
normpath(done, rest) ==
    IF rest = <<>> THEN done
    ELSE LET c == Head(rest) IN
         IF c = "." THEN normpath(done, Tail(rest))
         ELSE IF c = ".." THEN
              normpath(IF Len(done) > 1 THEN SubSeq(done, 1, Len(done) - 1)
                       ELSE done, Tail(rest))
         ELSE normpath(Append(done, c), Tail(rest))

join(a, b) == IF b # <<>> /\ Head(b) = "/" THEN b ELSE a \o b

abspath(p) == normpath(<<>>, join(Cwd, p))

RECURSIVE commonpath(_, _)
commonpath(a, b) ==
    IF a = <<>> \/ b = <<>> \/ Head(a) # Head(b) THEN <<>>
    ELSE <<Head(a)>> \o commonpath(Tail(a), Tail(b))

base_dir == abspath(join(Cwd, <<"Data">>))

raw_dir(snapshot_id) == <<"Data", "raw", snapshot_id>>

-----------------------------------------------------------------------------
(* Rows and bags of rows. A bronze row carries the data of one CSV line   *)
(* (val) and the four lineage values; at is _inserted_at, the start time  *)
(* of the inserting transaction.                                          *)

Row(t, s, r, f, v, at) ==
    [tbl |-> t, snap |-> s, run |-> r, src |-> f, val |-> v, at |-> at]

BagMin(A, B) ==
    [x \in DOMAIN A \cap DOMAIN B |-> IF A[x] < B[x] THEN A[x] ELSE B[x]]

\* the rows of a staging table, each extended with the lineage values
Staged(rows, t, s, r, f, at) ==
    LET S == {Row(t, s, r, f, rows[i], at) : i \in DOMAIN rows}
    IN  [x \in S |->
            Cardinality({i \in DOMAIN rows : Row(t, s, r, f, rows[i], at) = x})]

\* WHERE _snapshot_id = s on table t
OfSnapshot(B, t, s) ==
    [x \in {y \in DOMAIN B : y.tbl = t /\ y.snap = s} |-> B[x]]

\* a row without the stamps of the load that inserted it
Data(x) == [tbl |-> x.tbl, snap |-> x.snap, src |-> x.src, val |-> x.val]

Content(B) ==
    [y \in {Data(x) : x \in DOMAIN B} |->
        BagCardinality([x \in {z \in DOMAIN B : Data(z) = y} |-> B[x]])]

\* what a statement of connection c sees: the committed rows and its own writes
Visible(c) == (bronze (-) del[c]) (+) ins[c]

NoStaging == [exists |-> FALSE, meta |-> FALSE, rows |-> <<>>]

-----------------------------------------------------------------------------
(* load_csv_via_temp_table *)

NoResult == [kind |-> "none", table |-> None, msg |-> "",
             rows_inserted |-> 0, rows_deleted |-> 0]

NoLoad == [path |-> <<>>, alone |-> FALSE, rows_inserted |-> 0, rows |-> EmptyBag]

IdleFrame ==
    [pc |-> "idle", csv_path |-> <<>>, table_name |-> None,
     snapshot_id |-> None, run_id |-> None, source_file |-> None,
     abs_path |-> <<>>, targets |-> EmptyBag, existing_rows |-> 0,
     deleted_rows |-> 0, row_count |-> 0, stmts |-> 0, failed_at |-> "",
     result |-> NoResult, seen |-> NoLoad, before |-> EmptyBag]

\* mutant: the allow-list is not consulted
ValidateNoAllowList(table_name, csv_path, files) ==
    IF commonpath(base_dir, abspath(csv_path)) # base_dir THEN
        [kind |-> "ValueError", msg |-> "Invalid CSV path"]
    ELSE IF abspath(csv_path) \notin files THEN
        [kind |-> "FileNotFoundError", msg |-> "CSV file not found"]
    ELSE [kind |-> "ok", msg |-> ""]

\* mutant: the existence check comes before the containment check
ValidateExistsFirst(table_name, csv_path, files) ==
    IF table_name \notin ALLOWED_TABLES THEN
        [kind |-> "ValueError", msg |-> "Security Error: Invalid table name"]
    ELSE IF abspath(csv_path) \notin files THEN
        [kind |-> "FileNotFoundError", msg |-> "CSV file not found"]
    ELSE IF commonpath(base_dir, abspath(csv_path)) # base_dir THEN
        [kind |-> "ValueError", msg |-> "Invalid CSV path"]
    ELSE [kind |-> "ok", msg |-> ""]

\* the checks made before any statement is issued
Validate(table_name, csv_path, files) ==
    IF table_name \notin ALLOWED_TABLES THEN
        [kind |-> "ValueError", msg |-> "Security Error: Invalid table name"]
    ELSE IF commonpath(base_dir, abspath(csv_path)) # base_dir THEN
        [kind |-> "ValueError", msg |-> "Invalid CSV path"]
    ELSE IF abspath(csv_path) \notin files THEN
        [kind |-> "FileNotFoundError", msg |-> "CSV file not found"]
    ELSE [kind |-> "ok", msg |-> ""]

\* net_rows of a LoadResult
net_rows(res) == res.rows_inserted - res.rows_deleted

\* entry of the call: the frame with the arguments, before the first line runs
Enter(c, csv_path, table_name, snapshot_id, run_id, source_file) ==
    /\ ld' = [ld EXCEPT ![c] =
                [IdleFrame EXCEPT
                    !.pc = "validate", !.csv_path = csv_path,
                    !.table_name = table_name, !.snapshot_id = snapshot_id,
                    !.run_id = run_id, !.source_file = source_file,
                    !.seen = IF <<table_name, snapshot_id>> \in DOMAIN lastLoad
                             THEN lastLoad[<<table_name, snapshot_id>>]
                             ELSE NoLoad,
                    !.before = bronze]]
    /\ disturbed' = [disturbed EXCEPT ![c] = FALSE]

LoaderValidate(c) ==
    /\ ld[c].pc = "validate"
    /\ LET v == Validate(ld[c].table_name, ld[c].csv_path, DOMAIN disk) IN
       ld' = [ld EXCEPT ![c] =
                IF v.kind = "ok"
                THEN [@ EXCEPT !.pc = "create", !.abs_path = abspath(ld[c].csv_path)]
                ELSE [@ EXCEPT !.pc = "done",
                               !.result = [NoResult EXCEPT !.kind = v.kind,
                                                           !.msg = v.msg]]]
    /\ UNCHANGED <<fsvars, restvars, dbvars, txvars, orch, nfaults, ncalls, lastLoad,
                   disturbed>>

\* a statement that raises: the transaction is aborted and control goes to
\* the except clause
Raise(c, step) ==
    /\ nfaults < MaxFaults
    /\ nfaults' = nfaults + 1
    /\ tx' = [tx EXCEPT ![c] = "aborted"]
    /\ ld' = [ld EXCEPT ![c] = [@ EXCEPT !.pc = "except", !.failed_at = step,
                                         !.stmts = @ + 1]]

\* psycopg2 opens a transaction with the first statement; NOW() is its start
Begin(c) ==
    /\ tx' = [tx EXCEPT ![c] = "open"]
    /\ now' = IF tx[c] = "idle" THEN now + 1 ELSE now

\* CREATE TEMP TABLE tmp (LIKE bronze.table INCLUDING ALL) ON COMMIT DROP
LoaderCreate(c) ==
    /\ ld[c].pc = "create"
    /\ \E ok \in BOOLEAN :
        IF ok THEN
            /\ Begin(c)
            /\ tmp' = [tmp EXCEPT ![c] = [exists |-> TRUE, meta |-> TRUE,
                                          rows |-> <<>>]]
            /\ ld' = [ld EXCEPT ![c] = [@ EXCEPT !.pc = "alter", !.stmts = @ + 1]]
            /\ UNCHANGED nfaults
        ELSE
            /\ Raise(c, "create")
            /\ UNCHANGED <<tmp, now>>
    /\ UNCHANGED <<fsvars, restvars, bronze, runs, file_loads, file_manifest, ins, del,
                   orch, ncalls, lastLoad, disturbed>>

\* ALTER TABLE tmp DROP COLUMN IF EXISTS col, for each of METADATA_COLS
LoaderAlter(c) ==
    /\ ld[c].pc = "alter"
    /\ \E ok \in BOOLEAN :
        IF ok THEN
            /\ tmp' = [tmp EXCEPT ![c] = [@ EXCEPT !.meta = FALSE]]
            /\ ld' = [ld EXCEPT ![c] = [@ EXCEPT !.pc = "copy",
                                        !.stmts = @ + Len(METADATA_COLS)]]
            /\ UNCHANGED <<nfaults, tx>>
        ELSE
            /\ Raise(c, "alter")
            /\ UNCHANGED tmp
    /\ UNCHANGED <<fsvars, restvars, dbvars, ins, del, orch, ncalls, lastLoad, disturbed>>

\* COPY tmp FROM STDIN WITH CSV HEADER: the header line is skipped; a file
\* whose columns are not those of the staging table is refused
LoaderCopy(c) ==
    /\ ld[c].pc = "copy"
    /\ \E ok \in BOOLEAN :
        IF ok /\ ld[c].abs_path \in DOMAIN disk /\ ~tmp[c].meta THEN
            /\ tmp' = [tmp EXCEPT ![c] = [@ EXCEPT !.rows = disk[ld[c].abs_path]]]
            /\ ld' = [ld EXCEPT ![c] = [@ EXCEPT !.pc = "audit", !.stmts = @ + 1]]
            /\ UNCHANGED <<nfaults, tx>>
        ELSE
            /\ Raise(c, "copy")
            /\ UNCHANGED tmp
    /\ UNCHANGED <<fsvars, restvars, dbvars, ins, del, orch, ncalls, lastLoad, disturbed>>

\* SELECT COUNT( * ) FROM target WHERE _snapshot_id = %s
LoaderAudit(c) ==
    /\ ld[c].pc = "audit"
    /\ \E ok \in BOOLEAN :
        IF ok THEN
            /\ ld' = [ld EXCEPT ![c] =
                        [@ EXCEPT !.pc = "delete", !.stmts = @ + 1,
                                  !.existing_rows = BagCardinality(
                                      OfSnapshot(Visible(c), ld[c].table_name,
                                                 ld[c].snapshot_id))]]
            /\ UNCHANGED <<nfaults, tx>>
        ELSE Raise(c, "audit")
    /\ UNCHANGED <<fsvars, restvars, dbvars, ins, del, tmp, orch, ncalls, lastLoad,
                   disturbed>>

\* mutant: the DELETE has no WHERE clause
DeleteWholeTable(B, table_name, snapshot_id) ==
    [x \in {y \in DOMAIN B : y.tbl = table_name} |-> B[x]]

\* the rows DELETE FROM bronze.<table_name> WHERE _snapshot_id = %s addresses
DeleteTargets(B, table_name, snapshot_id) ==
    OfSnapshot(B, table_name, snapshot_id)

\* DELETE FROM target WHERE _snapshot_id = %s, first half: the statement
\* takes its snapshot and finds the rows to delete
LoaderDelete(c) ==
    /\ ld[c].pc = "delete"
    /\ ld' = [ld EXCEPT ![c] =
                [@ EXCEPT !.pc = "deleting",
                          !.targets = DeleteTargets(Visible(c), ld[c].table_name,
                                                    ld[c].snapshot_id)]]
    /\ UNCHANGED <<fsvars, restvars, dbvars, txvars, orch, nfaults, ncalls, lastLoad,
                   disturbed>>

\* mutant: the DELETE removes nothing
DeletedNothing(c, targets) == EmptyBag

\* the rows of `targets` that connection c deletes once it holds their locks:
\* a row that another transaction deleted and committed meanwhile is skipped
DeletedCommitted(c, targets) == BagMin(targets, bronze (-) del[c])

DeletedOwn(c, targets) == BagMin(targets (-) DeletedCommitted(c, targets), ins[c])

\* DELETE, second half: it waits while another open transaction holds a
\* delete on one of the rows, then deletes and reports cur.rowcount
LoaderDeleting(c) ==
    /\ ld[c].pc = "deleting"
    /\ \A o \in Conns \ {c} : BagMin(ld[c].targets, del[o]) = EmptyBag
    /\ \E ok \in BOOLEAN :
        IF ok THEN
            /\ del' = [del EXCEPT ![c] = @ (+) DeletedCommitted(c, ld[c].targets)]
            /\ ins' = [ins EXCEPT ![c] = @ (-) DeletedOwn(c, ld[c].targets)]
            /\ ld' = [ld EXCEPT ![c] =
                        [@ EXCEPT !.pc = "insert", !.stmts = @ + 1,
                                  !.deleted_rows =
                                      BagCardinality(DeletedCommitted(c, ld[c].targets))
                                      + BagCardinality(DeletedOwn(c, ld[c].targets))]]
            /\ UNCHANGED <<nfaults, tx>>
        ELSE
            /\ Raise(c, "delete")
            /\ UNCHANGED <<ins, del>>
    /\ UNCHANGED <<fsvars, restvars, dbvars, tmp, orch, ncalls, lastLoad, disturbed>>

\* INSERT INTO target SELECT *, snapshot_id, run_id, NOW(), source_file FROM tmp
LoaderInsert(c) ==
    /\ ld[c].pc = "insert"
    /\ \E ok \in BOOLEAN :
        IF ok THEN
            /\ ins' = [ins EXCEPT ![c] =
                        @ (+) Staged(tmp[c].rows, ld[c].table_name,
                                     ld[c].snapshot_id, ld[c].run_id,
                                     ld[c].source_file, now)]
            /\ ld' = [ld EXCEPT ![c] = [@ EXCEPT !.pc = "count", !.stmts = @ + 1]]
            /\ UNCHANGED <<nfaults, tx>>
        ELSE
            /\ Raise(c, "insert")
            /\ UNCHANGED ins
    /\ UNCHANGED <<fsvars, restvars, dbvars, del, tmp, orch, ncalls, lastLoad, disturbed>>

\* SELECT COUNT( * ) FROM tmp
LoaderCount(c) ==
    /\ ld[c].pc = "count"
    /\ \E ok \in BOOLEAN :
        IF ok THEN
            /\ ld' = [ld EXCEPT ![c] = [@ EXCEPT !.pc = "commit", !.stmts = @ + 1,
                                        !.row_count = Len(tmp[c].rows)]]
            /\ UNCHANGED <<nfaults, tx>>
        ELSE Raise(c, "count")
    /\ UNCHANGED <<fsvars, restvars, dbvars, ins, del, tmp, orch, ncalls, lastLoad,
                   disturbed>>

\* the committed rows once the transaction of connection c commits
Committed(c) == (bronze (-) del[c]) (+) ins[c]

\* every other connection that is inside a call sees the table change
Disturb(c) ==
    [o \in Conns |-> IF o # c /\ ld[o].pc # "idle" THEN TRUE ELSE disturbed[o]]

\* conn.commit() and the LoadResult returned
LoaderCommit(c) ==
    /\ ld[c].pc = "commit"
    /\ bronze' = Committed(c)
    /\ ins' = [ins EXCEPT ![c] = EmptyBag]
    /\ del' = [del EXCEPT ![c] = EmptyBag]
    /\ tmp' = [tmp EXCEPT ![c] = NoStaging]
    /\ tx' = [tx EXCEPT ![c] = "idle"]
    /\ ld' = [ld EXCEPT ![c] =
                [@ EXCEPT !.pc = "done", !.stmts = @ + 1,
                          !.result = [kind |-> "LoadResult",
                                      table |-> ld[c].table_name, msg |-> "",
                                      rows_inserted |-> ld[c].row_count,
                                      rows_deleted |-> ld[c].deleted_rows]]]
    /\ lastLoad' = [lastLoad EXCEPT ![<<ld[c].table_name, ld[c].snapshot_id>>] =
                      [path |-> ld[c].abs_path,
                       alone |-> ~disturbed[c],
                       rows_inserted |-> ld[c].row_count,
                       rows |-> Content(OfSnapshot(Committed(c), ld[c].table_name,
                                                   ld[c].snapshot_id))]]
    /\ disturbed' = Disturb(c)
    /\ UNCHANGED <<fsvars, restvars, linvars, orch, nfaults, ncalls>>

\* mutant: the except clause commits what the transaction wrote
RolledBackCommits(c) == (bronze (-) del[c]) (+) ins[c]

\* the committed rows once the except clause has run: conn.rollback()
RolledBack(c) == bronze

\* except Exception: conn.rollback(); raise LoadError(table_name, str(e))
LoaderExcept(c) ==
    /\ ld[c].pc = "except"
    /\ bronze' = RolledBack(c)
    /\ ins' = [ins EXCEPT ![c] = EmptyBag]
    /\ del' = [del EXCEPT ![c] = EmptyBag]
    /\ tmp' = [tmp EXCEPT ![c] = NoStaging]
    /\ tx' = [tx EXCEPT ![c] = "idle"]
    /\ ld' = [ld EXCEPT ![c] =
                [@ EXCEPT !.pc = "done", !.stmts = @ + 1,
                          !.result = [NoResult EXCEPT
                                         !.kind = "LoadError",
                                         !.table = ld[c].table_name,
                                         !.msg = ld[c].failed_at]]]
    /\ UNCHANGED <<fsvars, restvars, linvars, orch, nfaults, ncalls, lastLoad, disturbed>>

Loader(c) ==
    \/ LoaderValidate(c)
    \/ LoaderCreate(c)
    \/ LoaderAlter(c)
    \/ LoaderCopy(c)
    \/ LoaderAudit(c)
    \/ LoaderDelete(c)
    \/ LoaderDeleting(c)
    \/ LoaderInsert(c)
    \/ LoaderCount(c)
    \/ LoaderCommit(c)
    \/ LoaderExcept(c)

-----------------------------------------------------------------------------
(* Direct callers of load_csv_via_temp_table, one per connection *)

InsideA == <<"Data", "raw", "s1", "olist_orders_dataset.csv">>
InsideB == <<"Data", "raw", "s1", "olist_customers_dataset.csv">>

PathInputs ==
    {InsideA, InsideB,
     <<"Data", "raw", "s1", "absent.csv">>,
     <<"Data", "..", "etc", "passwd">>,
     <<"/", "etc", "absent.csv">>,
     <<"Database", "olist_orders_dataset.csv">>}

TableInputs == {"orders", "customers", "pg_authid"}

Seqs(n) == UNION {[1..k -> Vals] : k \in 0..n}

OffOrch == [pc |-> "off"]

InitDb ==
    /\ bronze = EmptyBag
    /\ runs = <<>>
    /\ file_loads = <<>>
    /\ file_manifest = {}
    /\ now = 0

\* the threads that use db.py
Threads == {1, 2}

\* a thread outside get_db_connection and close_pool; target is the pool
\* object its last release addressed (-1: none yet, 0: None)
IdleThread == [pc |-> "idle", conn |-> <<>>, error |-> "", target |-> -1,
               fn |-> ""]

\* _DB_POOL = None, no acquisition in progress
NoPool == [created |-> FALSE, pc |-> "idle", attempts |-> 0, inits |-> 0,
           outcome |-> "", errors |-> <<>>, yielded |-> FALSE, conn |-> "none",
           body |-> "", rolled |-> FALSE, used |-> 0, used0 |-> 0,
           handed |-> 0, discarded |-> FALSE]

NoProbe == [pc |-> "off"]

InitConns ==
    /\ tx = [c \in Conns |-> "idle"]
    /\ ins = [c \in Conns |-> EmptyBag]
    /\ del = [c \in Conns |-> EmptyBag]
    /\ tmp = [c \in Conns |-> NoStaging]
    /\ ld = [c \in Conns |-> IdleFrame]
    /\ nfaults = 0
    /\ ncalls = 0
    /\ lastLoad = [k \in ALLOWED_TABLES \X Snapshots |-> NoLoad]
    /\ disturbed = [c \in Conns |-> FALSE]
    /\ quality_checks = <<>>
    /\ pool = NoPool
    /\ probe = NoProbe
    /\ _DB_POOL = 0
    /\ pool_objs = <<>>
    /\ th = [t \in Threads |-> IdleThread]

InitLoad ==
    /\ \E ra \in Seqs(MaxRows) :
         disk = (abspath(InsideA) :> ra) @@ (abspath(InsideB) :> <<"b">>)
                @@ (abspath(<<"Data", "..", "etc", "passwd">>) :> <<"a">>)
                @@ (abspath(<<"Database", "olist_orders_dataset.csv">>) :> <<"a">>)
    /\ manifests = <<>>
    /\ InitDb
    /\ InitConns
    /\ orch = OffOrch

\* a direct caller on connection c, with the arguments it may pass
Call(c, paths, tables, rids) ==
    /\ orch.pc = "off"
    /\ ld[c].pc = "idle"
    /\ ncalls < MaxCalls
    /\ ncalls' = ncalls + 1
    /\ \E p \in paths, t \in tables, s \in Snapshots, r \in rids :
         Enter(c, p, t, s, r, p[Len(p)])
    /\ UNCHANGED <<fsvars, restvars, dbvars, txvars, orch, nfaults, lastLoad>>

Return(c) ==
    /\ orch.pc = "off"
    /\ ld[c].pc = "done"
    /\ ld' = [ld EXCEPT ![c] = IdleFrame]
    /\ UNCHANGED <<fsvars, restvars, dbvars, txvars, orch, nfaults, ncalls, lastLoad,
                   disturbed>>

\* one caller at a time, any arguments
NextLoad ==
    \/ Call(1, PathInputs, TableInputs, RunIds)
    \/ Return(1)
    \/ Loader(1)

SpecLoad == InitLoad /\ [][NextLoad]_vars

\* two concurrent callers, each its own run, loading into the same table
RunOf(c) == IF c = 1 THEN "r1" ELSE "r2"

NextRace ==
    \E c \in Conns :
        \/ Call(c, {InsideA}, {"orders"}, {RunOf(c)})
        \/ Return(c)
        \/ Loader(c)

SpecRace == InitLoad /\ [][NextRace]_vars

-----------------------------------------------------------------------------
(* quality_bronze.py: the quality checks *)

PRIMARY_KEYS ==
    [orders |-> <<"order_id">>,
     order_items |-> <<"order_id", "order_item_id">>,
     customers |-> <<"customer_id">>,
     products |-> <<"product_id">>,
     sellers |-> <<"seller_id">>,
     order_reviews |-> <<"review_id">>,
     order_payments |-> <<"order_id">>,
     geolocation |-> <<"geolocation_zip_code_prefix">>,
     product_category_name_translation |-> <<"product_category_name">>]

\* PRIMARY_KEYS.get(table_name, [])
pk_cols(table_name) ==
    IF table_name \in DOMAIN PRIMARY_KEYS THEN PRIMARY_KEYS[table_name] ELSE <<>>

SeqToSet(q) == {q[k] : k \in 1..Len(q)}

\* an optional integer: None or a number
NoInt == <<>>
Some(n) == <<n>>

\* the data of a row: "n1" has a null in the table's first primary-key
\* column, "n2" in its second, every other value has no null
IsNull(v, k) == (k = 1 /\ v = "n1") \/ (k = 2 /\ v = "n2")

\* SELECT COUNT(*) FROM bronze.<table> WHERE _snapshot_id = %s
CountRows(B, table_name, snapshot_id) ==
    BagCardinality(OfSnapshot(B, table_name, snapshot_id))

\* COUNT(*) FILTER (WHERE <k-th primary-key column> IS NULL)
CountNulls(B, table_name, snapshot_id, k) ==
    LET S == OfSnapshot(B, table_name, snapshot_id)
        N == [x \in {y \in DOMAIN S : IsNull(y.val, k)} |-> S[x]]
    IN  BagCardinality(N)

\* mutant: the count is taken over every snapshot of the table
check_row_count_all(B, table_name, snapshot_id, expected_rows) ==
    LET actual == BagCardinality([x \in {y \in DOMAIN B : y.tbl = table_name}
                                    |-> B[x]])
    IN  [table |-> table_name, check_name |-> "row_count",
         passed |-> (Some(actual) = expected_rows),
         details |-> [expected |-> expected_rows, actual |-> actual]]

\* check_row_count: passed = actual == expected_rows
check_row_count(B, table_name, snapshot_id, expected_rows) ==
    LET actual == CountRows(B, table_name, snapshot_id)
    IN  [table |-> table_name, check_name |-> "row_count",
         passed |-> (Some(actual) = expected_rows),
         details |-> [expected |-> expected_rows, actual |-> actual]]

\* check_not_empty: passed = count > 0
check_not_empty(B, table_name, snapshot_id) ==
    LET count == CountRows(B, table_name, snapshot_id)
    IN  [table |-> table_name, check_name |-> "not_empty",
         passed |-> (count > 0), details |-> [row_count |-> count]]

\* round(null_count / total, 4), in ten-thousandths, halves to even
Round4(null_count, total) ==
    LET q == (null_count * 10000) \div total
        r == (null_count * 10000) % total
    IN  IF 2 * r > total \/ (2 * r = total /\ q % 2 = 1) THEN q + 1 ELSE q

PkNullName(col) ==
    CASE col = "order_id" -> "pk_null_order_id"
      [] col = "order_item_id" -> "pk_null_order_item_id"
      [] col = "customer_id" -> "pk_null_customer_id"
      [] col = "product_id" -> "pk_null_product_id"
      [] col = "seller_id" -> "pk_null_seller_id"
      [] col = "review_id" -> "pk_null_review_id"
      [] col = "geolocation_zip_code_prefix" ->
             "pk_null_geolocation_zip_code_prefix"
      [] col = "product_category_name" -> "pk_null_product_category_name"

\* mutant: a column passes when not every row has a null in it
PkNullPassedSome(null_count, total) == null_count < total \/ total = 0

\* passed = null_count == 0
PkNullPassed(null_count, total) == null_count = 0

\* check_primary_key_nulls: one result per primary-key column, in order
check_primary_key_nulls(B, table_name, snapshot_id) ==
    [k \in 1..Len(pk_cols(table_name)) |->
        LET col == pk_cols(table_name)[k]
            total == CountRows(B, table_name, snapshot_id)
            null_count == CountNulls(B, table_name, snapshot_id, k)
        IN  [table |-> table_name, check_name |-> PkNullName(col),
             passed |-> PkNullPassed(null_count, total),
             details |-> [column |-> col, total |-> total,
                          null_count |-> null_count,
                          null_rate |-> IF total > 0
                                        THEN Round4(null_count, total)
                                        ELSE 0]]]

\* check_schema: the columns information_schema reports for the table must
\* include the primary-key and the metadata columns
check_schema(actual_cols, table_name) ==
    LET expected == SeqToSet(pk_cols(table_name)) \cup SeqToSet(METADATA_COLS)
        missing == expected \ actual_cols
    IN  [table |-> table_name, check_name |-> "schema",
         passed |-> (missing = {}),
         details |-> [missing_columns |-> missing,
                      actual_columns |-> actual_cols]]

RECURSIVE UntilFailed(_)
UntilFailed(results) ==
    IF results = <<>> THEN <<>>
    ELSE IF ~Head(results).passed THEN <<Head(results)>>
    ELSE <<Head(results)>> \o UntilFailed(Tail(results))

\* mutant: the checks stop at the first one that fails
run_quality_checks_until_failed(B, actual_cols, table_name, snapshot_id, expected_rows) ==
    UntilFailed(<<check_not_empty(B, table_name, snapshot_id),
                  check_row_count(B, table_name, snapshot_id, expected_rows),
                  check_schema(actual_cols, table_name)>>
                \o check_primary_key_nulls(B, table_name, snapshot_id))

\* run_quality_checks, with the rows and the catalog the connection sees
run_quality_checks(B, actual_cols, table_name, snapshot_id, expected_rows) ==
    <<check_not_empty(B, table_name, snapshot_id),
      check_row_count(B, table_name, snapshot_id, expected_rows),
      check_schema(actual_cols, table_name)>>
    \o check_primary_key_nulls(B, table_name, snapshot_id)

\* mutant: ON CONFLICT DO NOTHING, the first record of a key is kept
RECURSIVE persist_keep_first(_, _, _, _)
persist_keep_first(store, run_id, results, at) ==
    IF results = <<>> THEN store
    ELSE LET res == Head(results)
             key == <<run_id, res.table, res.check_name>>
             row == [passed |-> res.passed, details |-> res.details,
                     checked_at |-> at]
         IN  persist_keep_first(
                 [k \in DOMAIN store \cup {key} |->
                     IF k \in DOMAIN store THEN store[k] ELSE row],
                 run_id, Tail(results), at)

\* persist_quality_results: INSERT ... ON CONFLICT (run_id, table_name,
\* check_name) DO UPDATE SET passed, details, checked_at = NOW()
RECURSIVE persist_quality_results(_, _, _, _)
persist_quality_results(store, run_id, results, at) ==
    IF results = <<>> THEN store
    ELSE LET res == Head(results)
             key == <<run_id, res.table, res.check_name>>
             row == [passed |-> res.passed, details |-> res.details,
                     checked_at |-> at]
         IN  persist_quality_results(
                 [k \in DOMAIN store \cup {key} |->
                     IF k = key THEN row ELSE store[k]],
                 run_id, Tail(results), at)

\* the columns of a bronze table as the schema catalog declares them
TableCols(table_name) ==
    SeqToSet(pk_cols(table_name)) \cup SeqToSet(METADATA_COLS)

-----------------------------------------------------------------------------
(* load_bronze.py: the lineage helpers and load() *)

RunNames == <<"r1", "r2", "r3", "r4">>
LoadRunIds == {RunNames[i] : i \in 1..MaxRuns}

FileName(i)  == FILE_TO_TABLE[i][1]
TableName(i) == FILE_TO_TABLE[i][2]

\* the connection load() holds for the whole run
C == 1

NoMeta == [filename |-> None, hash |-> None, size |-> 0, row_count |-> 0,
           keys |-> {}]

\* file_hashes.get(file_name) over the manifest's files
file_meta(manifest, file_name) ==
    IF \E m \in manifest : m.filename = file_name
    THEN CHOOSE m \in manifest : m.filename = file_name
    ELSE NoMeta

\* SELECT file_hash FROM ingestion.file_manifest WHERE filename = %s
\* ORDER BY created_at DESC LIMIT 1, compared with new_hash
_file_changed(store, filename, new_hash) ==
    LET rows == {m \in store : m.filename = filename} IN
    IF rows = {} THEN TRUE
    ELSE LET last == CHOOSE m \in rows :
                        \A o \in rows : o.created_at <= m.created_at
         IN  last.file_hash # new_hash

\* INSERT INTO ingestion.file_manifest ... ON CONFLICT (snapshot_id, filename)
\* DO UPDATE SET file_hash, file_size_bytes, row_count; created_at is set by
\* the table's default when the row is first inserted
_record_file_manifest(store, snapshot_id, filename, file_hash, file_size, row_count, at) ==
    LET old == {m \in store : m.snapshot_id = snapshot_id /\ m.filename = filename}
    IN  IF old = {}
        THEN store \cup {[snapshot_id |-> snapshot_id, filename |-> filename,
                          file_hash |-> file_hash, file_size_bytes |-> file_size,
                          row_count |-> row_count, created_at |-> at]}
        ELSE (store \ old) \cup
             {[m EXCEPT !.file_hash = file_hash, !.file_size_bytes = file_size,
                        !.row_count = row_count] : m \in old}

\* INSERT INTO ingestion.runs (run_id, snapshot_id, status) VALUES (.., 'started')
_register_run(table, run_id, snapshot_id) ==
    table @@ (run_id :> [snapshot_id |-> snapshot_id, status |-> "started",
                         error_message |-> <<>>])

\* UPDATE ingestion.runs SET status, end_time, error_message WHERE run_id = %s
_complete_run(table, run_id, status, error_message) ==
    IF run_id \in DOMAIN table
    THEN [table EXCEPT ![run_id] = [@ EXCEPT !.status = status,
                                            !.error_message = error_message]]
    ELSE table

\* INSERT INTO ingestion.file_loads ... 'pending' ON CONFLICT DO NOTHING
_register_file_load(table, run_id, file_name) ==
    IF <<run_id, file_name>> \in DOMAIN table THEN table
    ELSE table @@ (<<run_id, file_name>> :>
                     [status |-> "pending", rows_inserted |-> 0, message |-> ""])

\* UPDATE ingestion.file_loads SET status, rows_inserted, message WHERE ...
_complete_file_load(table, run_id, file_name, status, rows_inserted, message) ==
    IF <<run_id, file_name>> \in DOMAIN table
    THEN [table EXCEPT ![<<run_id, file_name>>] =
            [status |-> status, rows_inserted |-> rows_inserted,
             message |-> message]]
    ELSE table

\* mutant: no file is skipped for an unchanged hash
SkipNever(listed, changed) == FALSE

\* if file_meta and not _file_changed(...): continue
SkipUnchanged(listed, changed) == listed /\ ~changed

\* mutant: the failure of one file is not caught
CaughtNothing(kind) == FALSE

\* the try/except around one file catches every Exception
CaughtPerFile(kind) == TRUE

\* mutant: the run is marked 'success' whatever failed
RunStatusSuccess(failed_tables) == "success"

\* run_status = 'failed' if failed_tables else 'success'
run_status(failed_tables) == IF failed_tables # <<>> THEN "failed" ELSE "success"

RECURSIVE SumRows(_)
SumRows(results) ==
    IF results = <<>> THEN 0
    ELSE Head(results).rows_inserted + SumRows(Tail(results))

NoSummary == [tables_loaded |-> 0, total_rows |-> 0]

InitFrame ==
    [pc |-> "init", snapshot_id |-> None, run_id |-> None, manifest |-> {},
     idx |-> 0, meta |-> NoMeta, results |-> <<>>, failed_tables |-> <<>>,
     err |-> "", error |-> "", summary |-> NoSummary, nruns |-> 0,
     registered |-> FALSE, decided |-> {}, attempted |-> {}, faults |-> {},
     manifest0 |-> {}, dq_results |-> <<>>, dq_failed |-> {}, health |-> "",
     db0 |-> <<>>]

\* a statement of load() on its connection: it raises when the transaction
\* is aborted, and otherwise may fail, which aborts the transaction
Ok(ok) == ok /\ tx[C] # "aborted"

Fail(ok) ==
    /\ ~ok /\ tx[C] # "aborted" => nfaults < MaxFaults
    /\ nfaults' = IF ~ok /\ tx[C] # "aborted" THEN nfaults + 1 ELSE nfaults
    /\ tx' = [tx EXCEPT ![C] = "aborted"]

\* everything load() may write in the database
Stored == <<bronze, runs, file_loads, file_manifest, quality_checks>>

\* load(snapshot_id, run_id) up to the health check: the manifest is read
LoadBegin ==
    /\ orch.pc \in {"init", "returned", "raised"}
    /\ orch.nruns < MaxRuns
    /\ \E arg \in Snapshots \cup {None, "s0"}, rid \in LoadRunIds :
        LET latest == "s2"
            sid == IF arg = None THEN latest ELSE arg
        IN  orch' = IF sid \in DOMAIN manifests
                    THEN [InitFrame EXCEPT
                            !.pc = "health", !.snapshot_id = sid,
                            !.run_id = rid, !.manifest = manifests[sid],
                            !.nruns = orch.nruns + 1,
                            !.manifest0 = file_manifest,
                            !.db0 = Stored]
                    ELSE [InitFrame EXCEPT
                            !.pc = "raised", !.error = "FileNotFoundError",
                            !.nruns = orch.nruns + 1]
    /\ UNCHANGED <<fsvars, restvars, dbvars, txvars, ld, nfaults, ncalls, lastLoad,
                   disturbed>>

\* mutant: the run goes on whatever the health check says
AbortNever(healthy) == FALSE

\* if status['status'] != 'healthy': raise RuntimeError
AbortUnhealthy(healthy) == ~healthy

\* status = health_check(); raise RuntimeError unless healthy
HealthCheck ==
    /\ orch.pc = "health"
    /\ \E healthy \in BOOLEAN :
        LET o == [orch EXCEPT !.health = IF healthy THEN "healthy"
                                         ELSE "unhealthy"]
        IN  orch' = IF AbortUnhealthy(healthy)
                    THEN [o EXCEPT !.pc = "raised", !.error = "RuntimeError"]
                    ELSE [o EXCEPT !.pc = "register_run"]
    /\ UNCHANGED <<fsvars, restvars, dbvars, txvars, ld, nfaults, ncalls, lastLoad,
                   disturbed>>

\* with get_db_connection() as conn: _register_run(conn, run_id, snapshot_id)
RegisterRun ==
    /\ orch.pc = "register_run"
    /\ \E ok \in BOOLEAN :
        IF Ok(ok) /\ orch.run_id \notin DOMAIN runs THEN
            /\ runs' = _register_run(runs, orch.run_id, orch.snapshot_id)
            /\ now' = IF tx[C] = "idle" THEN now + 1 ELSE now
            /\ tx' = [tx EXCEPT ![C] = "idle"]
            /\ orch' = [orch EXCEPT !.pc = "file", !.idx = 1, !.registered = TRUE]
            /\ UNCHANGED nfaults
        ELSE
            /\ Fail(ok \/ orch.run_id \in DOMAIN runs)
            /\ orch' = [orch EXCEPT !.pc = "unwind",
                                    !.faults = @ \cup {<<0, "register_run">>}]
            /\ UNCHANGED <<runs, now>>
    /\ UNCHANGED <<fsvars, restvars, bronze, file_loads, file_manifest, ins, del, tmp, ld,
                   ncalls, lastLoad, disturbed>>

FilePath(i) == raw_dir(orch.snapshot_id) \o <<FileName(i)>>

\* the next file, or the end of the loop
NextFile ==
    [orch EXCEPT !.pc = "file", !.idx = @ + 1, !.meta = NoMeta, !.err = "",
                 !.dq_results = <<>>]

\* the head of the loop over FILE_TO_TABLE: the file is skipped when it is
\* missing or when its hash is the one last loaded
FileCheck ==
    /\ orch.pc = "file"
    /\ IF orch.idx > NumFiles THEN
            /\ orch' = [orch EXCEPT !.pc = "complete_run"]
            /\ UNCHANGED <<tx, now, nfaults>>
       ELSE IF abspath(FilePath(orch.idx)) \notin DOMAIN disk THEN
            /\ orch' = [NextFile EXCEPT !.decided = @ \cup {orch.idx}]
            /\ UNCHANGED <<tx, now, nfaults>>
       ELSE LET m == file_meta(orch.manifest, FileName(orch.idx)) IN
            IF m = NoMeta THEN
                /\ orch' = [orch EXCEPT !.pc = "register_file", !.meta = m]
                /\ UNCHANGED <<tx, now, nfaults>>
            ELSE \E ok \in BOOLEAN :
                IF Ok(ok) THEN
                    /\ Begin(C)
                    /\ orch' =
                        IF SkipUnchanged(TRUE, _file_changed(file_manifest,
                                                   FileName(orch.idx), m.hash))
                        THEN [NextFile EXCEPT !.decided = @ \cup {orch.idx}]
                        ELSE [orch EXCEPT !.pc = "register_file", !.meta = m]
                    /\ UNCHANGED nfaults
                ELSE
                    /\ Fail(ok)
                    /\ orch' = [orch EXCEPT
                                  !.pc = "unwind",
                                  !.faults = @ \cup {<<orch.idx, "file_changed">>}]
                    /\ UNCHANGED now
    /\ UNCHANGED <<fsvars, restvars, bronze, runs, file_loads, file_manifest, ins, del,
                   tmp, ld, ncalls, lastLoad, disturbed>>

\* _register_file_load(conn, run_id, file_name), outside the try
RegisterFileLoad ==
    /\ orch.pc = "register_file"
    /\ \E ok \in BOOLEAN :
        IF Ok(ok) THEN
            /\ file_loads' = _register_file_load(file_loads, orch.run_id,
                                                 FileName(orch.idx))
            /\ now' = IF tx[C] = "idle" THEN now + 1 ELSE now
            /\ tx' = [tx EXCEPT ![C] = "idle"]
            /\ orch' = [orch EXCEPT !.pc = "call_load"]
            /\ UNCHANGED nfaults
        ELSE
            /\ Fail(ok)
            /\ orch' = [orch EXCEPT
                          !.pc = "unwind",
                          !.faults = @ \cup {<<orch.idx, "register_file">>}]
            /\ UNCHANGED <<file_loads, now>>
    /\ UNCHANGED <<fsvars, restvars, bronze, runs, file_manifest, ins, del, tmp, ld,
                   ncalls, lastLoad, disturbed>>

\* try: result = load_csv_via_temp_table(conn, str(file_path), table_name,
\*                                        snapshot_id, run_id, file_name)
CallLoad ==
    /\ orch.pc = "call_load"
    /\ ld[C].pc = "idle"
    /\ Enter(C, FilePath(orch.idx), TableName(orch.idx), orch.snapshot_id,
             orch.run_id, FileName(orch.idx))
    /\ orch' = [orch EXCEPT !.pc = "loading",
                            !.decided = @ \cup {orch.idx},
                            !.attempted = @ \cup {orch.idx}]
    /\ UNCHANGED <<fsvars, restvars, dbvars, txvars, nfaults, ncalls, lastLoad>>

\* the call returns a LoadResult (results.append) or raises
LoadReturned ==
    /\ orch.pc = "loading"
    /\ ld[C].pc = "done"
    /\ orch' =
        IF ld[C].result.kind = "LoadResult"
        THEN [orch EXCEPT !.pc = "record_manifest",
                          !.results = Append(@, ld[C].result)]
        ELSE [orch EXCEPT
                !.pc = IF CaughtPerFile(ld[C].result.kind) THEN "except"
                       ELSE "unwind",
                !.err = ld[C].result.kind,
                !.faults = @ \cup {<<orch.idx, ld[C].failed_at>>}]
    /\ ld' = [ld EXCEPT ![C] = IdleFrame]
    /\ UNCHANGED <<fsvars, restvars, dbvars, txvars, nfaults, ncalls, lastLoad, disturbed>>

\* a statement inside the try raises: control goes to the except clause
ToExcept(ok, step) ==
    /\ Fail(ok)
    /\ orch' = [orch EXCEPT
                  !.pc = IF CaughtPerFile("psycopg2.Error") THEN "except"
                         ELSE "unwind",
                  !.err = step,
                  !.faults = @ \cup {<<orch.idx, step>>}]

LastResult == orch.results[Len(orch.results)]

\* if file_meta: _record_file_manifest(conn, snapshot_id, file_name, ...)
RecordManifest ==
    /\ orch.pc = "record_manifest"
    /\ IF orch.meta = NoMeta THEN
            /\ orch' = [orch EXCEPT !.pc = "dq"]
            /\ UNCHANGED <<file_manifest, now, tx, nfaults>>
       ELSE IF "size" \notin orch.meta.keys THEN
            \* file_meta['size'] raises KeyError before any statement is issued
            /\ orch' = [orch EXCEPT
                          !.pc = IF CaughtPerFile("KeyError") THEN "except"
                                 ELSE "unwind",
                          !.err = "KeyError",
                          !.faults = @ \cup {<<orch.idx, "record_manifest">>}]
            /\ UNCHANGED <<file_manifest, now, tx, nfaults>>
       ELSE \E ok \in BOOLEAN :
            IF Ok(ok) THEN
                /\ file_manifest' =
                     _record_file_manifest(file_manifest, orch.snapshot_id,
                         FileName(orch.idx), orch.meta.hash, orch.meta.size,
                         LastResult.rows_inserted,
                         IF tx[C] = "idle" THEN now + 1 ELSE now)
                /\ now' = IF tx[C] = "idle" THEN now + 1 ELSE now
                /\ tx' = [tx EXCEPT ![C] = "idle"]
                /\ orch' = [orch EXCEPT !.pc = "dq"]
                /\ UNCHANGED nfaults
            ELSE
                /\ ToExcept(ok, "record_manifest")
                /\ UNCHANGED <<file_manifest, now>>
    /\ UNCHANGED <<fsvars, restvars, bronze, runs, file_loads, ins, del, tmp, ld, ncalls,
                   lastLoad, disturbed>>

\* manifest_row_count = file_meta.get('row_count') if file_meta else None
manifest_row_count(meta) ==
    IF meta # NoMeta /\ "row_count" \in meta.keys THEN Some(meta.row_count)
    ELSE NoInt

FailedChecks(results) == {k \in 1..Len(results) : ~results[k].passed}

\* dq_results = run_quality_checks(conn, table_name, snapshot_id, row_count)
RunQualityChecks ==
    /\ orch.pc = "dq"
    /\ \E ok \in BOOLEAN :
        IF Ok(ok) THEN
            /\ Begin(C)
            /\ LET dq == run_quality_checks(Visible(C),
                             TableCols(TableName(orch.idx)),
                             TableName(orch.idx), orch.snapshot_id,
                             manifest_row_count(orch.meta))
               IN  orch' = [orch EXCEPT
                              !.pc = "persist",
                              !.dq_results = dq,
                              !.dq_failed = IF FailedChecks(dq) # {}
                                            THEN @ \cup {orch.idx} ELSE @]
            /\ UNCHANGED nfaults
        ELSE
            /\ ToExcept(ok, "dq")
            /\ UNCHANGED now
    /\ UNCHANGED <<fsvars, restvars, bronze, runs, file_loads, file_manifest, ins, del,
                   tmp, ld, ncalls, lastLoad, disturbed>>

\* mutant: a failed check makes the file fail
RaiseOnAnyFailedCheck(results) == FailedChecks(results) # {}

\* if failed_checks: logger.warning(...), nothing is raised
RaiseOnFailedChecks(results) == FALSE

\* persist_quality_results(conn, run_id, dq_results), then the failed checks
\* are logged
PersistQuality ==
    /\ orch.pc = "persist"
    /\ \E ok \in BOOLEAN :
        IF Ok(ok) THEN
            /\ quality_checks' = persist_quality_results(quality_checks,
                                     orch.run_id, orch.dq_results, now)
            /\ tx' = [tx EXCEPT ![C] = "idle"]
            /\ orch' = IF RaiseOnFailedChecks(orch.dq_results)
                       THEN [orch EXCEPT !.pc = "except",
                                         !.err = "QualityError"]
                       ELSE [orch EXCEPT !.pc = "complete_file"]
            /\ UNCHANGED nfaults
        ELSE
            /\ ToExcept(ok, "persist")
            /\ UNCHANGED quality_checks
    /\ UNCHANGED <<fsvars, pool, probe, thrvars, dbvars, ins, del, tmp, ld,
                   ncalls, lastLoad, disturbed>>

\* _complete_file_load(conn, run_id, file_name, 'loaded', result.rows_inserted)
CompleteFileLoaded ==
    /\ orch.pc = "complete_file"
    /\ \E ok \in BOOLEAN :
        IF Ok(ok) THEN
            /\ file_loads' = _complete_file_load(file_loads, orch.run_id,
                                 FileName(orch.idx), "loaded",
                                 LastResult.rows_inserted, "")
            /\ now' = IF tx[C] = "idle" THEN now + 1 ELSE now
            /\ tx' = [tx EXCEPT ![C] = "idle"]
            /\ orch' = NextFile
            /\ UNCHANGED nfaults
        ELSE
            /\ ToExcept(ok, "complete_loaded")
            /\ UNCHANGED <<file_loads, now>>
    /\ UNCHANGED <<fsvars, restvars, bronze, runs, file_manifest, ins, del, tmp, ld,
                   ncalls, lastLoad, disturbed>>

\* except Exception as e: failed_tables.append(table_name);
\* _complete_file_load(conn, run_id, file_name, 'failed', message=str(e))
HandleFailure ==
    /\ orch.pc = "except"
    /\ \E ok \in BOOLEAN :
        IF Ok(ok) THEN
            /\ file_loads' = _complete_file_load(file_loads, orch.run_id,
                                 FileName(orch.idx), "failed", 0, orch.err)
            /\ now' = IF tx[C] = "idle" THEN now + 1 ELSE now
            /\ tx' = [tx EXCEPT ![C] = "idle"]
            /\ orch' = [NextFile EXCEPT
                          !.failed_tables = Append(@, TableName(orch.idx))]
            /\ UNCHANGED nfaults
        ELSE
            /\ Fail(ok)
            /\ orch' = [orch EXCEPT
                          !.pc = "unwind",
                          !.failed_tables = Append(@, TableName(orch.idx)),
                          !.faults = @ \cup {<<orch.idx, "complete_failed">>}]
            /\ UNCHANGED <<file_loads, now>>
    /\ UNCHANGED <<fsvars, restvars, bronze, runs, file_manifest, ins, del, tmp, ld,
                   ncalls, lastLoad, disturbed>>

\* _complete_run(conn, run_id, run_status, error_msg) after the loop
CompleteRun ==
    /\ orch.pc = "complete_run"
    /\ \E ok \in BOOLEAN :
        IF Ok(ok) THEN
            /\ runs' = _complete_run(runs, orch.run_id,
                                     run_status(orch.failed_tables),
                                     orch.failed_tables)
            /\ now' = IF tx[C] = "idle" THEN now + 1 ELSE now
            /\ tx' = [tx EXCEPT ![C] = "idle"]
            /\ orch' = [orch EXCEPT !.pc = "return"]
            /\ UNCHANGED nfaults
        ELSE
            /\ Fail(ok)
            /\ orch' = [orch EXCEPT !.pc = "unwind",
                                    !.faults = @ \cup {<<0, "complete_run">>}]
            /\ UNCHANGED <<runs, now>>
    /\ UNCHANGED <<fsvars, restvars, bronze, file_loads, file_manifest, ins, del, tmp, ld,
                   ncalls, lastLoad, disturbed>>

\* the with block is left and the LoadSummary is returned
LoadReturn ==
    /\ orch.pc = "return"
    /\ orch' = [orch EXCEPT
                  !.pc = "returned",
                  !.summary = [tables_loaded |-> Len(orch.results),
                               total_rows |-> SumRows(orch.results)]]
    /\ UNCHANGED <<fsvars, restvars, dbvars, txvars, ld, nfaults, ncalls, lastLoad,
                   disturbed>>

\* an exception leaves the with block: get_db_connection rolls back, raises
\* DbConnectionError and hands the connection back
Unwind ==
    /\ orch.pc = "unwind"
    /\ tx' = [tx EXCEPT ![C] = "idle"]
    /\ ins' = [ins EXCEPT ![C] = EmptyBag]
    /\ del' = [del EXCEPT ![C] = EmptyBag]
    /\ tmp' = [tmp EXCEPT ![C] = NoStaging]
    /\ orch' = [orch EXCEPT !.pc = "raised", !.error = "DbConnectionError"]
    /\ UNCHANGED <<fsvars, restvars, dbvars, ld, nfaults, ncalls, lastLoad, disturbed>>

-----------------------------------------------------------------------------
(* Runs of load(), one after the other, over the snapshots on disk *)

Hashes == {"h1", "h2"}

\* the data rows of the i-th configured file
RawRows(i) == IF i % 2 = 1 THEN <<"a">> ELSE <<"a", "b">>

RawPath(s, i) == abspath(raw_dir(s) \o <<FileName(i)>>)

\* the data rows of the i-th file when its content hashes to h
FileRows(i, h) == IF h = "h2" THEN <<"n1", "b">> ELSE RawRows(i)

Descriptor(i, h) ==
    [filename |-> FileName(i), hash |-> h, size |-> Len(FileRows(i, h)),
     row_count |-> Len(FileRows(i, h)), keys |-> {"hash", "size", "row_count"}]

\* a descriptor without the size, as in {filename, hash, row_count}
Partial(i) ==
    [Descriptor(i, "h1") EXCEPT !.size = 0, !.keys = {"hash", "row_count"}]

\* snapshot s1 is complete; of snapshot s2 any file may be missing from the
\* raw directory or from the manifest, its content may differ from s1's, and
\* its descriptor may lack the size
InitOrch ==
    /\ \E state \in [1..NumFiles -> {"absent", "unlisted", "partial"} \cup Hashes] :
        /\ disk = [q \in {RawPath("s1", i) : i \in 1..NumFiles} \cup
                         {RawPath("s2", i) : i \in {j \in 1..NumFiles :
                                                     state[j] # "absent"}}
                   |-> LET i == CHOOSE j \in 1..NumFiles :
                                     q \in {RawPath("s1", j), RawPath("s2", j)}
                       IN  IF q = RawPath("s2", i) THEN FileRows(i, state[i])
                           ELSE RawRows(i)]
        /\ manifests =
             [s \in Snapshots |->
                IF s = "s1" THEN {Descriptor(i, "h1") : i \in 1..NumFiles}
                ELSE {Descriptor(i, state[i]) :
                        i \in {j \in 1..NumFiles : state[j] \in Hashes}}
                     \cup {Partial(i) :
                        i \in {j \in 1..NumFiles : state[j] = "partial"}}]
    /\ InitDb
    /\ InitConns
    /\ orch = InitFrame

Next ==
    \/ LoadBegin
    \/ HealthCheck
    \/ RegisterRun
    \/ FileCheck
    \/ RegisterFileLoad
    \/ CallLoad
    \/ Loader(C)
    \/ LoadReturned
    \/ RecordManifest
    \/ RunQualityChecks
    \/ PersistQuality
    \/ CompleteFileLoaded
    \/ HandleFailure
    \/ CompleteRun
    \/ LoadReturn
    \/ Unwind

Spec == InitOrch /\ [][Next]_vars

-----------------------------------------------------------------------------
(* The quality checks called on their own, on a table with any content *)

QTables == {"orders", "order_items"}
QVals == {"a", "n1", "n2"}

QSeqs == UNION {[1..n -> Snapshots \X QVals] : n \in 0..MaxRows}

RECURSIVE TableOf(_, _)
TableOf(t, q) ==
    IF q = <<>> THEN EmptyBag
    ELSE SetToBag({Row(t, Head(q)[1], "r1", "f.csv", Head(q)[2], 0)})
         (+) TableOf(t, Tail(q))

\* the catalogs a bronze table may have: complete, or a column missing
Catalogs(t) ==
    {TableCols(t), TableCols(t) \ {"_run_id"}, TableCols(t) \ {pk_cols(t)[1]}}

InitQuality ==
    /\ \E t \in QTables, q \in QSeqs : bronze = TableOf(t, q)
    /\ disk = <<>>
    /\ manifests = <<>>
    /\ runs = <<>>
    /\ file_loads = <<>>
    /\ file_manifest = {}
    /\ now = 0
    /\ InitConns
    /\ orch = OffOrch

Probe(fn, t, s, e, cols, result) ==
    /\ probe' = [pc |-> "done", fn |-> fn, table_name |-> t,
                 snapshot_id |-> s, expected_rows |-> e, actual_cols |-> cols,
                 result |-> result]
    /\ UNCHANGED <<fsvars, dbvars, txvars, ld, orch, nfaults, ncalls, lastLoad,
                   disturbed, quality_checks, pool, thrvars>>

Expected == {NoInt} \cup {Some(n) : n \in 0..(MaxRows + 1)}

CallRowCount ==
    \E t \in QTables, s \in Snapshots, e \in Expected :
        Probe("check_row_count", t, s, e, {},
              <<check_row_count(bronze, t, s, e)>>)

CallNotEmpty ==
    \E t \in QTables, s \in Snapshots :
        Probe("check_not_empty", t, s, NoInt, {},
              <<check_not_empty(bronze, t, s)>>)

CallSchema ==
    \E t \in QTables : \E cols \in Catalogs(t) :
        Probe("check_schema", t, None, NoInt, cols, <<check_schema(cols, t)>>)

CallPkNulls ==
    \E t \in QTables, s \in Snapshots :
        Probe("check_primary_key_nulls", t, s, NoInt, {},
              check_primary_key_nulls(bronze, t, s))

CallRunQualityChecks ==
    \E t \in QTables, s \in Snapshots, e \in Expected : \E cols \in Catalogs(t) :
        Probe("run_quality_checks", t, s, e, cols,
              run_quality_checks(bronze, cols, t, s, e))

NextQuality ==
    \/ CallRowCount
    \/ CallNotEmpty
    \/ CallSchema
    \/ CallPkNulls
    \/ CallRunQualityChecks

SpecQuality == InitQuality /\ [][NextQuality]_vars

-----------------------------------------------------------------------------
(* persist_quality_results called on its own, with the results of
   run_quality_checks for any run, table and expected count *)

\* the orders of snapshot s1, the other tables empty
InitPersist ==
    /\ \E q \in {p \in QSeqs : \A n \in 1..Len(p) : p[n][1] = "s1"} :
          bronze = TableOf("orders", q)
    /\ disk = <<>>
    /\ manifests = <<>>
    /\ runs = <<>>
    /\ file_loads = <<>>
    /\ file_manifest = {}
    /\ now = 0
    /\ InitConns
    /\ orch = OffOrch

\* the calls made so far, oldest first: <<run_id, results, NOW()>>
PersistLog == IF probe = NoProbe THEN <<>> ELSE probe.log

\* persist_quality_results(conn, run_id, results) and its commit
CallPersistQualityResults ==
    /\ ncalls < MaxCalls
    /\ \E r \in RunIds, t \in QTables, e \in Expected :
        LET results == run_quality_checks(bronze, TableCols(t), t, "s1", e) IN
        /\ quality_checks' = persist_quality_results(quality_checks, r,
                                                     results, now + 1)
        /\ probe' = [pc |-> "persisted",
                     log |-> Append(PersistLog, <<r, results, now + 1>>)]
    /\ now' = now + 1
    /\ ncalls' = ncalls + 1
    /\ UNCHANGED <<fsvars, bronze, runs, file_loads, file_manifest, txvars, ld,
                   orch, nfaults, lastLoad, disturbed, pool, thrvars>>

NextPersist == CallPersistQualityResults

SpecPersist == InitPersist /\ [][NextPersist]_vars

-----------------------------------------------------------------------------
(* db.py: the connection pool, _acquire_connection and get_db_connection *)

\* stop_after_attempt(3)
MaxAttempts == 3

\* retry_if_exception_type((OperationalError, InterfaceError))
Transient == {"OperationalError", "InterfaceError"}

Retried(error) == error \in Transient

PoolUnchanged ==
    UNCHANGED <<fsvars, dbvars, txvars, ld, orch, nfaults, lastLoad, disturbed,
                quality_checks, probe, thrvars>>

\* a caller enters get_db_connection()
GetDbConnection ==
    /\ pool.pc \in {"idle", "raised"}
    /\ ncalls < MaxCalls
    /\ ncalls' = ncalls + 1
    /\ pool' = [pool EXCEPT !.pc = IF pool.created THEN "acquire" ELSE "init",
                            !.attempts = 0, !.inits = 0, !.outcome = "",
                            !.errors = <<>>, !.yielded = FALSE,
                            !.conn = "none", !.body = "", !.rolled = FALSE,
                            !.used0 = pool.used, !.handed = 0,
                            !.discarded = FALSE]
    /\ PoolUnchanged

\* if _DB_POOL is None: _init_db_pool(), before the retried helper is called:
\* _validate_config raises ConfigError, the pool constructor may raise
PoolInit ==
    /\ pool.pc = "init"
    /\ \E res \in {"ok", "ConfigError", "OperationalError"} :
        pool' = IF res = "ok"
                THEN [pool EXCEPT !.created = TRUE, !.pc = "acquire",
                                  !.inits = @ + 1]
                ELSE [pool EXCEPT !.pc = "raised", !.inits = @ + 1,
                                  !.outcome = res, !.errors = Append(@, res)]
    /\ UNCHANGED ncalls
    /\ PoolUnchanged

\* one attempt of _acquire_connection: _DB_POOL.getconn() returns a
\* connection or raises; tenacity retries the transient errors and raises
\* RetryError after the last attempt
AcquireAttempt ==
    /\ pool.pc = "acquire"
    /\ \E res \in {"ok", "PoolError"} \cup Transient :
        pool' = IF res = "ok"
                THEN [pool EXCEPT !.pc = "held", !.attempts = @ + 1,
                                  !.outcome = "connection", !.yielded = TRUE,
                                  !.conn = "ok", !.used = @ + 1]
                ELSE IF ~Retried(res)
                THEN [pool EXCEPT !.pc = "raised", !.attempts = @ + 1,
                                  !.outcome = res, !.errors = Append(@, res)]
                ELSE IF pool.attempts + 1 >= MaxAttempts
                THEN [pool EXCEPT !.pc = "raised", !.attempts = @ + 1,
                                  !.outcome = "RetryError",
                                  !.errors = Append(@, res)]
                ELSE [pool EXCEPT !.attempts = @ + 1,
                                  !.errors = Append(@, res)]
    /\ UNCHANGED ncalls
    /\ PoolUnchanged

\* what the with body may leave of the session: usable, closed (conn.closed
\* is set), broken (the server is gone, conn.closed not yet set), or in an
\* aborted transaction
ConnStates == {"ok", "closed", "broken", "aborted"}

\* the with body runs and finishes normally or raises; a failed statement,
\* which aborts the transaction, raises out of the bodies of load() and
\* health_check()
Body ==
    /\ pool.pc = "held"
    /\ \E state \in ConnStates, raised \in BOOLEAN :
        /\ state = "aborted" => raised
        /\ pool' = [pool EXCEPT !.pc = IF raised THEN "except" ELSE "finally",
                             !.body = IF raised THEN "raised" ELSE "returned",
                             !.conn = state, !.outcome = ""]
    /\ UNCHANGED ncalls
    /\ PoolUnchanged

\* conn.rollback(): raises InterfaceError on a closed connection and
\* OperationalError on a broken one; otherwise the transaction is over
rollback(state) ==
    IF state = "closed" THEN "InterfaceError"
    ELSE IF state = "broken" THEN "OperationalError"
    ELSE "ok"

\* except Exception as e: if conn: conn.rollback(); raise DbConnectionError
\* from e. An exception of rollback() replaces the raise.
ExceptClause ==
    /\ pool.pc = "except"
    /\ pool' = IF rollback(pool.conn) = "ok"
               THEN [pool EXCEPT !.pc = "finally", !.rolled = TRUE,
                                 !.conn = "ok",
                                 !.outcome = "DbConnectionError"]
               ELSE [pool EXCEPT !.pc = "finally",
                                 !.outcome = rollback(pool.conn)]
    /\ UNCHANGED ncalls
    /\ PoolUnchanged

\* _is_alive(conn): SELECT 1 answers, raises OperationalError or
\* InterfaceError (caught, False), or raises another psycopg2 error such as
\* InFailedSqlTransaction (not caught)
_is_alive(state) ==
    IF state = "ok" THEN "True"
    ELSE IF state \in {"closed", "broken"} THEN "False"
    ELSE "InternalError"

\* finally: if conn.closed or not _is_alive(conn): putconn(conn, close=True)
\* else: putconn(conn); then the call ends as the try/except decided
FinallyClause ==
    /\ pool.pc = "finally"
    /\ pool' =
        LET done == IF pool.outcome = "" THEN "idle" ELSE "raised" IN
        IF pool.conn = "closed" \/ _is_alive(pool.conn) = "False"
        THEN [pool EXCEPT !.pc = done, !.used = @ - 1, !.handed = @ + 1,
                          !.discarded = TRUE]
        ELSE IF _is_alive(pool.conn) = "True"
        THEN [pool EXCEPT !.pc = done, !.used = @ - 1, !.handed = @ + 1]
        ELSE [pool EXCEPT !.pc = "raised", !.outcome = _is_alive(pool.conn)]
    /\ UNCHANGED ncalls
    /\ PoolUnchanged

\* close_pool()
ClosePool ==
    /\ pool.pc \in {"idle", "raised"}
    /\ pool.created
    /\ pool' = [pool EXCEPT !.created = FALSE, !.used = 0]
    /\ UNCHANGED ncalls
    /\ PoolUnchanged

InitPool ==
    /\ disk = <<>>
    /\ manifests = <<>>
    /\ InitDb
    /\ InitConns
    /\ orch = OffOrch

NextPool ==
    \/ GetDbConnection
    \/ PoolInit
    \/ AcquireAttempt
    \/ Body
    \/ ExceptClause
    \/ FinallyClause
    \/ ClosePool

SpecPool == InitPool /\ [][NextPool]_vars

-----------------------------------------------------------------------------
(* db.py under threads: every read and write of the global _DB_POOL is a
   step of its own; the pool object synchronizes getconn, putconn and
   closeall internally *)

\* a new ThreadedConnectionPool: open, sessions numbered as they are made
NewPool == [closed |-> FALSE, used |-> {}, free |-> {}, made |-> 0]

ThreadUnchanged ==
    UNCHANGED <<fsvars, dbvars, txvars, ld, orch, nfaults, lastLoad, disturbed,
                quality_checks, probe, pool>>

Goto(t, pc) == th' = [th EXCEPT ![t] = [@ EXCEPT !.pc = pc]]

ThreadRaise(t, error) ==
    th' = [th EXCEPT ![t] = [@ EXCEPT !.pc = "raised", !.error = error]]

\* a thread calls get_db_connection()
EnterGetDbConnection(t) ==
    /\ th[t].pc \in {"idle", "raised"}
    /\ ncalls < MaxCalls
    /\ ncalls' = ncalls + 1
    /\ th' = [th EXCEPT ![t] = [IdleThread EXCEPT !.pc = "gdc_check",
                                                  !.fn = "get_db_connection"]]
    /\ UNCHANGED <<_DB_POOL, pool_objs>>
    /\ ThreadUnchanged

\* get_db_connection: if _DB_POOL is None
GdcCheck(t) ==
    /\ th[t].pc = "gdc_check"
    /\ Goto(t, IF _DB_POOL = 0 THEN "gdc_init" ELSE "acq_check")
    /\ UNCHANGED <<_DB_POOL, pool_objs, ncalls>>
    /\ ThreadUnchanged

\* _acquire_connection: if _DB_POOL is None
AcqCheck(t) ==
    /\ th[t].pc = "acq_check"
    /\ Goto(t, IF _DB_POOL = 0 THEN "acq_init" ELSE "getconn")
    /\ UNCHANGED <<_DB_POOL, pool_objs, ncalls>>
    /\ ThreadUnchanged

\* mutant: the pool object closed last is put back in the global
StalePoolId(objs) == IF objs = <<>> THEN 1 ELSE Len(objs)

\* ThreadedConnectionPool(...) constructs a new object
FreshPoolId(objs) == Len(objs) + 1

\* _init_db_pool(): _DB_POOL = psycopg2.pool.ThreadedConnectionPool(...)
InitDbPool(t) ==
    /\ th[t].pc \in {"gdc_init", "acq_init"}
    /\ LET id == FreshPoolId(pool_objs) IN
        /\ pool_objs' = IF id > Len(pool_objs) THEN Append(pool_objs, NewPool)
                        ELSE pool_objs
        /\ _DB_POOL' = id
    /\ Goto(t, IF th[t].pc = "gdc_init" THEN "acq_check" ELSE "getconn")
    /\ UNCHANGED ncalls
    /\ ThreadUnchanged

\* return _DB_POOL.getconn(): AttributeError on None, PoolError on a closed
\* pool, otherwise a pooled session or a new one
GetConn(t) ==
    /\ th[t].pc = "getconn"
    /\ IF _DB_POOL = 0 THEN
            /\ ThreadRaise(t, "AttributeError")
            /\ UNCHANGED pool_objs
       ELSE IF pool_objs[_DB_POOL].closed THEN
            /\ ThreadRaise(t, "PoolError")
            /\ UNCHANGED pool_objs
       ELSE LET p == pool_objs[_DB_POOL]
                k == IF p.free # {}
                     THEN CHOOSE n \in p.free : \A m \in p.free : n <= m
                     ELSE p.made + 1
            IN  /\ pool_objs' = [pool_objs EXCEPT ![_DB_POOL] =
                        [closed |-> FALSE, used |-> p.used \cup {k},
                         free |-> p.free \ {k},
                         made |-> IF k > p.made THEN k ELSE p.made]]
                /\ th' = [th EXCEPT ![t] = [@ EXCEPT !.pc = "held",
                                                     !.conn = <<_DB_POOL, k>>]]
    /\ UNCHANGED <<_DB_POOL, ncalls>>
    /\ ThreadUnchanged

\* the with body ends
BodyEnd(t) ==
    /\ th[t].pc = "held"
    /\ Goto(t, "finally")
    /\ UNCHANGED <<_DB_POOL, pool_objs, ncalls>>
    /\ ThreadUnchanged

\* finally: _DB_POOL.putconn(conn[, close=True]) on whatever the global
\* holds now: AttributeError on None, PoolError on a closed pool or on a pool
\* that did not hand out conn
PutConn(t) ==
    /\ th[t].pc = "finally"
    /\ IF _DB_POOL = 0 THEN
            /\ th' = [th EXCEPT ![t] = [@ EXCEPT !.pc = "raised", !.target = 0,
                                                 !.error = "AttributeError"]]
            /\ UNCHANGED pool_objs
       ELSE IF pool_objs[_DB_POOL].closed \/ th[t].conn[1] # _DB_POOL THEN
            /\ th' = [th EXCEPT ![t] = [@ EXCEPT !.pc = "raised",
                                                 !.target = _DB_POOL,
                                                 !.error = "PoolError"]]
            /\ UNCHANGED pool_objs
       ELSE /\ pool_objs' = [pool_objs EXCEPT ![_DB_POOL] =
                    [@ EXCEPT !.used = @ \ {th[t].conn[2]},
                              !.free = @ \cup {th[t].conn[2]}]]
            /\ th' = [th EXCEPT ![t] = [@ EXCEPT !.pc = "idle",
                                                 !.target = _DB_POOL]]
    /\ UNCHANGED <<_DB_POOL, ncalls>>
    /\ ThreadUnchanged

\* a thread calls close_pool(): if _DB_POOL: ... else: log only
ClosePoolCheck(t) ==
    /\ th[t].pc \in {"idle", "raised"}
    /\ ncalls < MaxCalls
    /\ ncalls' = ncalls + 1
    /\ th' = [th EXCEPT ![t] = [IdleThread EXCEPT
                !.pc = IF _DB_POOL = 0 THEN "idle" ELSE "closeall",
                !.fn = "close_pool"]]
    /\ UNCHANGED <<_DB_POOL, pool_objs>>
    /\ ThreadUnchanged

\* _DB_POOL.closeall(): every session of the pool is closed, pooled or
\* checked out; PoolError when the pool is closed already
CloseAll(t) ==
    /\ th[t].pc = "closeall"
    /\ IF _DB_POOL = 0 THEN
            /\ ThreadRaise(t, "AttributeError")
            /\ UNCHANGED pool_objs
       ELSE IF pool_objs[_DB_POOL].closed THEN
            /\ ThreadRaise(t, "PoolError")
            /\ UNCHANGED pool_objs
       ELSE /\ pool_objs' = [pool_objs EXCEPT ![_DB_POOL] =
                                [@ EXCEPT !.closed = TRUE]]
            /\ Goto(t, "setnone")
    /\ UNCHANGED <<_DB_POOL, ncalls>>
    /\ ThreadUnchanged

\* _DB_POOL = None
SetNone(t) ==
    /\ th[t].pc = "setnone"
    /\ _DB_POOL' = 0
    /\ Goto(t, "idle")
    /\ UNCHANGED <<pool_objs, ncalls>>
    /\ ThreadUnchanged

InitThreads ==
    /\ disk = <<>>
    /\ manifests = <<>>
    /\ InitDb
    /\ InitConns
    /\ orch = OffOrch

ThreadStep(t) ==
    \/ EnterGetDbConnection(t)
    \/ GdcCheck(t)
    \/ AcqCheck(t)
    \/ InitDbPool(t)
    \/ GetConn(t)
    \/ BodyEnd(t)
    \/ PutConn(t)
    \/ ClosePoolCheck(t)
    \/ CloseAll(t)
    \/ SetNone(t)

NextThreads == \E t \in Threads : ThreadStep(t)

SpecThreads == InitThreads /\ [][NextThreads]_vars

\* a thread is executing code of db.py (not the with body)
InDb(t) == th[t].pc \notin {"idle", "raised", "held"}

\* the calls into db.py one at a time: a thread enters get_db_connection,
\* leaves its with body or calls close_pool only while no other thread is
\* inside db.py; with bodies overlap, and close_pool may run while a session
\* is checked out
NextLifecycle ==
    \E t \in Threads :
        /\ \A u \in Threads \ {t} : ~InDb(u)
        /\ ThreadStep(t)

SpecLifecycle == InitThreads /\ [][NextLifecycle]_vars

-----------------------------------------------------------------------------
(* The file manifest on its own: any sequence of _record_file_manifest
   calls, each in a transaction of its own, with _file_changed asked in
   between *)

FileNames == {FileName(i) : i \in 1..NumFiles}

\* the hash the latest _record_file_manifest call wrote for each filename,
\* "" when there was no call for it
LastWritten ==
    IF probe = NoProbe THEN [f \in FileNames |-> ""] ELSE probe.last

ManifestUnchanged ==
    UNCHANGED <<fsvars, bronze, runs, file_loads, txvars, ld, orch, nfaults,
                lastLoad, disturbed, quality_checks, pool, thrvars>>

\* _record_file_manifest(conn, snapshot_id, filename, file_hash, ...) and its
\* commit
CallRecordFileManifest ==
    /\ ncalls < MaxCalls
    /\ \E snap \in Snapshots, f \in FileNames, h \in Hashes :
        /\ file_manifest' = _record_file_manifest(file_manifest, snap, f, h,
                                                  1, 1, now + 1)
        /\ probe' = [pc |-> "recorded", last |-> [LastWritten EXCEPT ![f] = h],
                     filename |-> f, new_hash |-> h, result |-> FALSE]
    /\ now' = now + 1
    /\ ncalls' = ncalls + 1
    /\ ManifestUnchanged

\* _file_changed(conn, filename, new_hash)
CallFileChanged ==
    /\ \E f \in FileNames, h \in Hashes :
        probe' = [pc |-> "asked", last |-> LastWritten, filename |-> f,
                  new_hash |-> h,
                  result |-> _file_changed(file_manifest, f, h)]
    /\ UNCHANGED <<file_manifest, now, ncalls>>
    /\ ManifestUnchanged

InitManifest ==
    /\ disk = <<>>
    /\ manifests = <<>>
    /\ InitDb
    /\ InitConns
    /\ orch = OffOrch

NextManifest ==
    \/ CallRecordFileManifest
    \/ CallFileChanged

SpecManifest == InitManifest /\ [][NextManifest]_vars

-----------------------------------------------------------------------------
(* Properties of load_csv_via_temp_table *)

Succeeded(c) == ld[c].pc = "done" /\ ld[c].result.kind = "LoadResult"

\* a call that loads the file loaded by the last committed load of the same
\* table and snapshot, with no commit of another connection during either
SecondInSequence(c) ==
    /\ Succeeded(c)
    /\ ~disturbed[c]
    /\ ld[c].seen.alone
    /\ ld[c].seen.path = ld[c].abs_path

\* C1: loading the same file for the same snapshot twice in sequence leaves
\* the rows of that snapshot that loading it once left (same count and
\* content, the stamps of the load aside), and the second call's
\* rows_deleted is the first call's rows_inserted.
C1_Idempotent ==
    \A c \in Conns :
        SecondInSequence(c) =>
            /\ Content(OfSnapshot(bronze, ld[c].table_name, ld[c].snapshot_id))
               = ld[c].seen.rows
            /\ ld[c].result.rows_deleted = ld[c].seen.rows_inserted
            /\ ld[c].result.rows_inserted = ld[c].seen.rows_inserted

C1_Witness ==
    \E c \in Conns :
        /\ SecondInSequence(c)
        /\ ld[c].result.rows_deleted = 2
        /\ BagCardinality(OfSnapshot(bronze, ld[c].table_name,
                                     ld[c].snapshot_id)) = 2

\* C2: all rows of a table tagged with one _snapshot_id carry one _run_id,
\* also when two runs on separate connections interleave their loads of the
\* same snapshot into the same table.
C2_OneRunPerSnapshot ==
    \A x \in DOMAIN bronze, y \in DOMAIN bronze :
        (x.tbl = y.tbl /\ x.snap = y.snap) => x.run = y.run

Failed(c) == ld[c].pc = "done" /\ ld[c].result.kind = "LoadError"

C4_UnknownTableRefused ==
    \A c \in Conns :
        (ld[c].pc # "idle" /\ ld[c].table_name \notin ALLOWED_TABLES) =>
            /\ ld[c].pc \in {"validate", "done"}
            /\ ld[c].stmts = 0
            /\ tx[c] = "idle" /\ tmp[c] = NoStaging
            /\ ins[c] = EmptyBag /\ del[c] = EmptyBag
            /\ ld[c].pc = "done" =>
                   /\ ld[c].result.kind = "ValueError"
                   /\ ld[c].result.msg = "Security Error: Invalid table name"

C4_Witness ==
    \E c \in Conns :
        /\ ld[c].pc = "done"
        /\ ld[c].table_name \notin ALLOWED_TABLES
        /\ ld[c].csv_path = InsideA
        /\ ncalls > 1 /\ bronze # EmptyBag

\* the absolute form of p lies outside the data root
Outside(p) ==
    LET a == abspath(p) IN
    ~(Len(a) >= Len(base_dir) /\ SubSeq(a, 1, Len(base_dir)) = base_dir)

\* C5: a call with a path whose absolute form lies outside the data root
\* fails with the security ValueError whether the file exists or not (the
\* containment check is decided before the existence check), and issues no
\* statement.
C5_OutsidePathRefused ==
    \A c \in Conns :
        (ld[c].pc # "idle" /\ Outside(ld[c].csv_path)) =>
            /\ ld[c].pc \in {"validate", "done"}
            /\ ld[c].stmts = 0
            /\ tx[c] = "idle" /\ tmp[c] = NoStaging
            /\ ld[c].pc = "done" => ld[c].result.kind = "ValueError"

C5_Witness ==
    \E c \in Conns :
        /\ ld[c].pc = "done"
        /\ ld[c].table_name \in ALLOWED_TABLES
        /\ Outside(ld[c].csv_path)
        /\ abspath(ld[c].csv_path) \notin DOMAIN disk
        /\ ld[c].result.msg = "Invalid CSV path"

\* the rows of B outside table t's rows of snapshot s
Others(B, t, s) ==
    [x \in {y \in DOMAIN B : ~(y.tbl = t /\ y.snap = s)} |-> B[x]]

\* C26: a call for snapshot S into table T that has ended, with a LoadResult
\* or with an error, has left every row of T tagged with another snapshot
\* and every row of the other tables as it was when the call began.
C26_OtherRowsUntouched ==
    \A c \in Conns :
        (ld[c].pc = "done" /\ ~disturbed[c]) =>
            Others(bronze, ld[c].table_name, ld[c].snapshot_id)
            = Others(ld[c].before, ld[c].table_name, ld[c].snapshot_id)

C26_Witness ==
    \E c \in Conns :
        /\ Succeeded(c)
        /\ ~disturbed[c]
        /\ ld[c].result.rows_inserted > 0
        /\ \E x \in DOMAIN bronze :
              x.tbl = ld[c].table_name /\ x.snap # ld[c].snapshot_id
        /\ \E x \in DOMAIN bronze : x.tbl # ld[c].table_name

\* C27: after a successful call with no other writer on the table, the rows
\* of the target tagged with the call's snapshot_id are as many as the
\* returned rows_inserted, each carries the call's run_id and source file,
\* and net_rows is rows_inserted minus rows_deleted, which is the change in
\* the number of rows of that snapshot.
C27_SnapshotRowsAreTheCalls ==
    \A c \in Conns :
        (Succeeded(c) /\ ~disturbed[c]) =>
            LET mine == OfSnapshot(bronze, ld[c].table_name, ld[c].snapshot_id)
            IN  /\ BagCardinality(mine) = ld[c].result.rows_inserted
                /\ \A x \in DOMAIN mine :
                      x.run = ld[c].run_id /\ x.src = ld[c].source_file
                /\ net_rows(ld[c].result)
                   = ld[c].result.rows_inserted - ld[c].result.rows_deleted
                /\ net_rows(ld[c].result)
                   = BagCardinality(mine)
                     - BagCardinality(OfSnapshot(ld[c].before, ld[c].table_name,
                                                 ld[c].snapshot_id))

\* a reload under another run id replaced the rows of the snapshot
C27_Witness ==
    \E c \in Conns :
        /\ Succeeded(c)
        /\ ~disturbed[c]
        /\ ld[c].result.rows_deleted > 0
        /\ ld[c].result.rows_inserted = MaxRows
        /\ \E x \in DOMAIN ld[c].before :
              /\ x.tbl = ld[c].table_name /\ x.snap = ld[c].snapshot_id
              /\ x.run # ld[c].run_id

-----------------------------------------------------------------------------
(* Properties of load() *)

Ended == orch.pc \in {"returned", "raised"}

FileLoadOf(i) == file_loads[<<orch.run_id, FileName(i)>>]

FaultedFiles == {f[1] : f \in orch.faults}

\* C6: when the only failures of a run are bulk copies that raise inside
\* load_csv_via_temp_table, load() returns, the run ends 'failed', each such
\* file ends 'failed', and every file declared after one of them is still
\* processed and ends 'loaded' when it was loaded and none of its steps failed.
C6_FailureIsolated ==
    (Ended /\ orch.faults # {} /\ \A f \in orch.faults : f[2] = "copy") =>
        /\ orch.pc = "returned"
        /\ runs[orch.run_id].status = "failed"
        /\ \A a \in FaultedFiles : FileLoadOf(a).status = "failed"
        /\ \A b \in 1..NumFiles :
             (\E a \in FaultedFiles : a < b) =>
                /\ b \in orch.decided
                /\ (b \in orch.attempted /\ b \notin FaultedFiles) =>
                       FileLoadOf(b).status = "loaded"

C6_Witness ==
    /\ orch.pc = "returned"
    /\ orch.faults = {<<1, "copy">>}
    /\ 2 \in orch.attempted
    /\ FileLoadOf(2).status = "loaded"
    /\ runs[orch.run_id].status = "failed"

\* C7: once load() has returned or raised, no run is left in 'started':
\* every registered run was moved to 'success' or 'failed'.
C7_NoRunLeftStarted ==
    Ended => \A r \in DOMAIN runs : runs[r].status \in {"success", "failed"}

\* C8: a FileLoad row is 'pending' only while its own file is being
\* processed: none is 'pending' when the next file starts or the run ends.
C8_NoFileLoadLeftPending ==
    \A k \in DOMAIN file_loads :
        file_loads[k].status = "pending" =>
            /\ ~Ended
            /\ k = <<orch.run_id, FileName(orch.idx)>>
            /\ orch.pc \notin {"file", "complete_run", "return"}

\* the files of run r whose FileLoad row ended 'failed'
FailedFiles(r) ==
    {i \in 1..NumFiles :
        /\ <<r, FileName(i)>> \in DOMAIN file_loads
        /\ file_loads[<<r, FileName(i)>>].status = "failed"}

\* C9: a finalized run is 'success' exactly when none of its files ended
\* 'failed'; otherwise it is 'failed' and its error message lists exactly the
\* tables of the failed files. A run that skipped every file is 'success'.
C9_StatusIffNoFailure ==
    \A r \in DOMAIN runs :
        runs[r].status # "started" =>
            /\ runs[r].status = "success" <=> FailedFiles(r) = {}
            /\ runs[r].status = "failed" <=> FailedFiles(r) # {}
            /\ {runs[r].error_message[k] :
                    k \in 1..Len(runs[r].error_message)}
               = {TableName(i) : i \in FailedFiles(r)}
            /\ Len(runs[r].error_message) = Cardinality(FailedFiles(r))
            /\ (r = orch.run_id /\ orch.registered /\ orch.attempted = {}) =>
                   runs[r].status = "success"

C9_Witness ==
    /\ orch.pc = "returned"
    /\ runs[orch.run_id].status = "failed"
    /\ runs[orch.run_id].error_message = <<TableName(2)>>
    /\ orch.attempted = {1, 2}
    /\ FileLoadOf(1).status = "loaded"
    /\ FileLoadOf(2).status = "failed"

\* the manifest lists file i, and the hash last recorded for it when the run
\* began is the listed one
ListedUnchanged(i) ==
    \E m \in manifests[orch.snapshot_id] :
        /\ m.filename = FileName(i)
        /\ \E rec \in orch.manifest0 :
            /\ rec.filename = FileName(i)
            /\ \A o \in orch.manifest0 :
                 o.filename = FileName(i) => o.created_at <= rec.created_at
            /\ rec.file_hash = m.hash

\* C10: for every file the run has decided on, a load is attempted and a
\* FileLoad row exists exactly when the file is in the raw directory and is
\* not both listed in the manifest and unchanged; a skipped file has no
\* FileLoad row, no attempt, and is not among the failed tables.
C10_AttemptIffPresentAndChanged ==
    \A i \in orch.decided :
        /\ i \in orch.attempted <=>
              /\ RawPath(orch.snapshot_id, i) \in DOMAIN disk
              /\ ~ListedUnchanged(i)
        /\ <<orch.run_id, FileName(i)>> \in DOMAIN file_loads <=>
              i \in orch.attempted
        /\ i \notin orch.attempted =>
              \A k \in 1..Len(orch.failed_tables) :
                  orch.failed_tables[k] # TableName(i)

C10_Witness ==
    /\ orch.pc = "returned"
    /\ orch.decided = 1..NumFiles
    /\ \E i \in orch.decided :
        /\ i \notin orch.attempted
        /\ RawPath(orch.snapshot_id, i) \in DOMAIN disk
    /\ \E i \in orch.decided :
        /\ i \in orch.attempted
        /\ FileLoadOf(i).status = "loaded"

\* the files of the current run whose FileLoad row is 'loaded'
LoadedFiles ==
    {i \in 1..NumFiles :
        /\ <<orch.run_id, FileName(i)>> \in DOMAIN file_loads
        /\ FileLoadOf(i).status = "loaded"}

RECURSIVE RowsOf(_)
RowsOf(files) ==
    IF files = {} THEN 0
    ELSE LET i == CHOOSE j \in files : TRUE
         IN  FileLoadOf(i).rows_inserted + RowsOf(files \ {i})

\* C11: the summary load() returns counts exactly the files whose FileLoad
\* ended 'loaded': tables_loaded is their number, total_rows the sum of their
\* rows_inserted, and no table among the failures is among the results.
C11_SummaryCountsLoaded ==
    orch.pc = "returned" =>
        /\ orch.summary.tables_loaded = Cardinality(LoadedFiles)
        /\ orch.summary.total_rows = RowsOf(LoadedFiles)
        /\ \A k \in 1..Len(orch.results), j \in 1..Len(orch.failed_tables) :
              orch.results[k].table # orch.failed_tables[j]

\* C12: a file whose quality checks came back with a failed check, and none
\* of whose steps raised, keeps its rows committed in the target table, has
\* its results persisted with the failed verdict, ends 'loaded', is not among
\* the failures, and the run ends 'success' when nothing raised.
C12_QualityFailuresAdvisory ==
    \A i \in orch.dq_failed :
        (i < orch.idx /\ i \notin FaultedFiles) =>
            /\ FileLoadOf(i).status = "loaded"
            /\ \A j \in 1..Len(orch.failed_tables) :
                  orch.failed_tables[j] # TableName(i)
            /\ CountRows(bronze, TableName(i), orch.snapshot_id)
               = FileLoadOf(i).rows_inserted
            /\ \A x \in DOMAIN OfSnapshot(bronze, TableName(i), orch.snapshot_id) :
                  x.run = orch.run_id
            /\ \E k \in DOMAIN quality_checks :
                  /\ k[1] = orch.run_id /\ k[2] = TableName(i)
                  /\ ~quality_checks[k].passed
            /\ (orch.pc = "returned" /\ orch.faults = {}) =>
                  runs[orch.run_id].status = "success"

C12_Witness ==
    /\ orch.pc = "returned"
    /\ runs[orch.run_id].status = "success"
    /\ 1 \in orch.dq_failed
    /\ <<orch.run_id, "orders", "pk_null_order_id">> \in DOMAIN quality_checks
    /\ ~quality_checks[<<orch.run_id, "orders", "pk_null_order_id">>].passed
    /\ CountRows(bronze, "orders", orch.snapshot_id) = 2

\* the sub-steps of a file that follow its staged load inside the try
PostLoadSteps == {"record_manifest", "dq", "persist", "complete_loaded"}

\* the files one of whose sub-steps after the staged load raised
RaisedAfterLoad ==
    {i \in 1..NumFiles : \E step \in PostLoadSteps : <<i, step>> \in orch.faults}

\* C18: when nothing raised but sub-steps that follow a committed staged load
\* (and the handling of such a failure), the exception stays inside the
\* per-file boundary: load() does not raise, the file's FileLoad ends 'failed'
\* with the error text, its table is among the failures, and the run is
\* finalized 'failed'.
C18_LateFailureStaysPerFile ==
    \A i \in RaisedAfterLoad :
        (\A f \in orch.faults : f[2] \in PostLoadSteps \cup {"complete_failed"}) =>
            /\ orch.pc \notin {"unwind", "raised"}
            /\ i < orch.idx =>
                  /\ FileLoadOf(i).status = "failed"
                  /\ FileLoadOf(i).message # ""
                  /\ TableName(i) \in SeqToSet(orch.failed_tables)
            /\ orch.pc \in {"return", "returned"} =>
                  runs[orch.run_id].status = "failed"

\* C17: when the health check does not report healthy, load() raises
\* RuntimeError with no run registered, no file decided on or attempted, no
\* statement issued on a connection of the run, and the runs, file loads,
\* file manifest, quality checks and bronze rows as they were before the call.
C17_UnhealthyAbortsFirst ==
    orch.health = "unhealthy" =>
        /\ orch.pc = "raised" /\ orch.error = "RuntimeError"
        /\ ~orch.registered
        /\ orch.decided = {} /\ orch.attempted = {}
        /\ Stored = orch.db0
        /\ tx[C] = "idle" /\ ld[C].pc = "idle"

C17_Witness ==
    /\ orch.health = "unhealthy"
    /\ orch.nruns = 2
    /\ runs # <<>>
    /\ bronze # EmptyBag

-----------------------------------------------------------------------------
(* Properties of the file manifest *)

\* C19: after any sequence of _record_file_manifest calls, _file_changed
\* (filename, h) is false exactly when h is the hash written by the latest
\* call for that filename, whatever the snapshot, and true when there was no
\* call for it.
C19_ComparesLastWrittenHash ==
    probe.pc = "asked" =>
        (probe.result = FALSE <=> probe.last[probe.filename] = probe.new_hash)

-----------------------------------------------------------------------------
(* Properties of the quality checks *)

Called(fn) == probe.pc = "done" /\ probe.fn = fn

\* the rows of the probed table that belong to the probed snapshot
ProbedRows ==
    {x \in DOMAIN bronze :
        x.tbl = probe.table_name /\ x.snap = probe.snapshot_id}

RECURSIVE Copies(_)
Copies(rows) ==
    IF rows = {} THEN 0
    ELSE LET x == CHOOSE y \in rows : TRUE
         IN  bronze[x] + Copies(rows \ {x})

\* C13: check_row_count on a table holding N rows of the snapshot passes
\* exactly when the expected count is N, and reports actual = N and the
\* expected count in its details; rows of other snapshots are not counted.
C13_RowCountExact ==
    (Called("check_row_count") /\ probe.expected_rows # NoInt) =>
        LET N == Copies(ProbedRows)
            r == probe.result[1]
        IN  /\ r.passed <=> probe.expected_rows = Some(N)
            /\ r.details.actual = N
            /\ r.details.expected = probe.expected_rows
            /\ r.check_name = "row_count" /\ r.table = probe.table_name

C13_Witness ==
    /\ Called("check_row_count")
    /\ Copies(ProbedRows) = 1
    /\ BagCardinality(bronze) = 2
    /\ probe.expected_rows = Some(2)
    /\ ~probe.result[1].passed

\* C14: when the manifest gives no expected row count, the row_count check
\* recorded for the file is not a failed one.
C14_UnknownExpectedNotFailed ==
    \A k \in DOMAIN quality_checks :
        (k[3] = "row_count" /\ quality_checks[k].details.expected = NoInt) =>
            quality_checks[k].passed

\* C15: check_primary_key_nulls gives one result per primary-key column;
\* pk_null_<column> passes exactly when no row of the snapshot has a null
\* in the column, total is the number of rows of the snapshot, null_count
\* the number of those with a null, and the rate is 0 when total is 0.
C15_PkNullsExact ==
    Called("check_primary_key_nulls") =>
        /\ Len(probe.result) = Len(pk_cols(probe.table_name))
        /\ \A k \in 1..Len(probe.result) :
            LET r == probe.result[k]
                nulls == {x \in ProbedRows : IsNull(x.val, k)}
            IN  /\ r.check_name = PkNullName(pk_cols(probe.table_name)[k])
                /\ r.details.column = pk_cols(probe.table_name)[k]
                /\ r.passed <=> nulls = {}
                /\ r.details.total = Copies(ProbedRows)
                /\ r.details.null_count = Copies(nulls)
                /\ r.details.total = 0 => r.details.null_rate = 0
                /\ r.details.total > 0 =>
                      \* the rate is within half a ten-thousandth of the ratio
                      /\ 2 * (r.details.null_rate * r.details.total
                              - 10000 * r.details.null_count)
                         <= r.details.total
                      /\ 2 * (10000 * r.details.null_count
                              - r.details.null_rate * r.details.total)
                         <= r.details.total

C15_Witness ==
    /\ Called("check_primary_key_nulls")
    /\ probe.table_name = "order_items"
    /\ probe.result[1].passed
    /\ ~probe.result[2].passed
    /\ probe.result[2].details.total = 2
    /\ probe.result[2].details.null_count = 1
    /\ probe.result[2].details.null_rate = 5000

\* C20: run_quality_checks returns not_empty, row_count, schema and then one
\* pk_null check per primary-key column in declared order, whatever the
\* verdicts of the earlier checks.
C20_ChecksInOrder ==
    Called("run_quality_checks") =>
        LET pk == pk_cols(probe.table_name) IN
        /\ Len(probe.result) = 3 + Len(pk)
        /\ probe.result[1].check_name = "not_empty"
        /\ probe.result[2].check_name = "row_count"
        /\ probe.result[3].check_name = "schema"
        /\ \A k \in 1..Len(pk) :
              probe.result[3 + k].check_name = PkNullName(pk[k])
        /\ \A k \in 1..Len(probe.result) :
              probe.result[k].table = probe.table_name

C20_Witness ==
    /\ Called("run_quality_checks")
    /\ probe.table_name = "order_items"
    /\ ~probe.result[2].passed
    /\ ~probe.result[3].passed
    /\ ~probe.result[4].passed
    /\ Len(probe.result) = 5

\* the FileLoad rows that ended 'failed', of any run
FailedLoads ==
    {k \in DOMAIN file_loads :
        file_loads[k].status = "failed" /\ k[1] \in DOMAIN runs}

\* a run over snapshot s would skip file f as unchanged: f is listed in the
\* manifest of s and _file_changed is false for its hash
WouldSkip(s, f) ==
    \E m \in manifests[s] :
        m.filename = f /\ ~_file_changed(file_manifest, f, m.hash)

-----------------------------------------------------------------------------
(* Properties of the quality store *)

\* the keys call j of the log wrote
KeysOf(j) ==
    {<<PersistLog[j][1], PersistLog[j][2][n].table,
       PersistLog[j][2][n].check_name>> : n \in 1..Len(PersistLog[j][2])}

\* the latest call that wrote key k, and the result it carried for k
LastCall(k) ==
    CHOOSE j \in 1..Len(PersistLog) :
        /\ k \in KeysOf(j)
        /\ \A m \in (j + 1)..Len(PersistLog) : k \notin KeysOf(m)

LastResultFor(k) ==
    LET results == PersistLog[LastCall(k)][2]
        n == CHOOSE m \in 1..Len(results) :
                 /\ k[2] = results[m].table /\ k[3] = results[m].check_name
                 /\ \A o \in (m + 1)..Len(results) :
                       ~(k[2] = results[o].table /\ k[3] = results[o].check_name)
    IN  results[n]

\* C21: after any sequence of persist_quality_results calls the store has one
\* record for exactly the keys (run_id, table, check_name) that were
\* persisted, and each record carries the verdict, the details and the time of
\* the latest result persisted for its key, so a call leaves the records of
\* the keys it does not write as they were.
C21_StoreHoldsLatestResult ==
    probe # NoProbe =>
        /\ DOMAIN quality_checks = UNION {KeysOf(j) : j \in 1..Len(PersistLog)}
        /\ \A k \in DOMAIN quality_checks :
              /\ quality_checks[k].passed = LastResultFor(k).passed
              /\ quality_checks[k].details = LastResultFor(k).details
              /\ quality_checks[k].checked_at = PersistLog[LastCall(k)][3]

\* a key was written twice with different verdicts while another key, written
\* by an earlier call only, is still in the store
C21_Witness ==
    /\ Len(PersistLog) = 3
    /\ \E k \in KeysOf(1) \cap KeysOf(3) :
          LET first == CHOOSE m \in 1..Len(PersistLog[1][2]) :
                           /\ k[2] = PersistLog[1][2][m].table
                           /\ k[3] = PersistLog[1][2][m].check_name
          IN  /\ PersistLog[1][2][first].passed # LastResultFor(k).passed
              /\ quality_checks[k].passed = LastResultFor(k).passed
    /\ \E k \in KeysOf(2) : k \notin KeysOf(3) /\ k \in DOMAIN quality_checks

-----------------------------------------------------------------------------
(* Properties of the connection pool *)

LastError == pool.errors[Len(pool.errors)]

\* get_db_connection raised before it had a connection to yield
AcquireFailed == pool.pc = "raised" /\ ~pool.yielded

\* C16: acquiring a connection takes at most three attempts; it gives up on
\* a transient error (one raised while the pool is created included) only
\* when the third attempt has failed, and a non-transient error such as
\* ConfigError ends it after one attempt.
C16_BoundedRetries ==
    /\ pool.attempts <= MaxAttempts
    /\ \A k \in 1..(Len(pool.errors) - 1) : pool.errors[k] \in Transient
    /\ (AcquireFailed /\ LastError \in Transient) =>
          Len(pool.errors) = MaxAttempts
    /\ (AcquireFailed /\ pool.outcome = "ConfigError") =>
          pool.inits + pool.attempts = 1

\* get_db_connection yielded a session and the call is over
Exited == pool.yielded /\ pool.pc \in {"idle", "raised"} /\ pool.created

\* C22: however the with body ends, the session is handed back to the pool
\* exactly once, discarded when it is closed or fails the liveness probe and
\* kept for reuse otherwise, and the in-use count is what it was before the
\* acquisition; when the body raised, the session was rolled back and the
\* caller gets DbConnectionError.
C22_SessionHandedBackOnce ==
    Exited =>
        /\ pool.handed = 1
        /\ pool.used = pool.used0
        /\ pool.discarded <=> pool.conn \in {"closed", "broken"}
        /\ pool.body = "raised" =>
              pool.rolled /\ pool.outcome = "DbConnectionError"

-----------------------------------------------------------------------------
(* Properties of the pool under threads *)

LivePools == {p \in 1..Len(pool_objs) : ~pool_objs[p].closed}

\* C23: under any interleaving of threads, close_pool while a session is
\* checked out and concurrent first initialization included, a session is
\* released to the pool object it was acquired from, never to another pool
\* object or to None, and at most one pool is live at a time.
C23_ReleasedToOwnPool ==
    /\ \A t \in Threads :
          th[t].target # -1 => th[t].target = th[t].conn[1]
    /\ Cardinality(LivePools) <= 1

\* the state part of C24: while no pool is set, every pool ever made is shut
\* down; the pool in the global is live unless its close_pool is under way;
\* a checked-out session of a live pool is a session of the current pool
LifecycleState ==
    /\ _DB_POOL = 0 => LivePools = {}
    /\ (_DB_POOL # 0 /\ \A t \in Threads : th[t].pc # "setnone") =>
          _DB_POOL \in LivePools
    /\ \A t \in Threads :
          (th[t].pc = "held" /\ th[t].conn[1] \in LivePools) =>
              th[t].conn[1] = _DB_POOL

\* the step part of C24: when close_pool returns the global is None and the
\* pool it held is shut down with all its sessions; close_pool with no pool
\* set changes neither the global nor any pool; a session is handed out by
\* the pool in the global, which is live
LifecycleStep ==
    \A t \in Threads :
        /\ (th[t].pc = "setnone" /\ th'[t].pc = "idle") =>
              /\ _DB_POOL' = 0
              /\ pool_objs'[_DB_POOL].closed
        /\ (th'[t] # th[t] /\ th'[t].fn = "close_pool" /\ _DB_POOL = 0) =>
              /\ UNCHANGED <<_DB_POOL, pool_objs>>
              /\ th'[t].pc = "idle" /\ th'[t].error = ""
        /\ (th[t].pc = "getconn" /\ th'[t].pc = "held") =>
              /\ th'[t].conn[1] = _DB_POOL
              /\ th'[t].conn[1] \in LivePools

\* C24: after close_pool() no pool is set and all sessions of the pool are
\* closed; the next acquisition creates a fresh pool and hands out none of
\* the closed pool's sessions; close_pool() without a pool changes nothing.
C24_PoolLifecycle == [](LifecycleState) /\ [][LifecycleStep]_vars

\* a second pool is in use after the first was shut down while one of its
\* sessions was checked out, and a close_pool found no pool
C24_Witness ==
    /\ Len(pool_objs) = 2
    /\ pool_objs[1].closed /\ pool_objs[1].used # {}
    /\ \E t \in Threads : th[t].pc = "held" /\ th[t].conn[1] = 2

====
